---- MODULE Spec2Model ----
(***************************************************************************)
(* Auction & settlement engine of the Yizhen platform.                     *)
(*                                                                         *)
(* The repository holds two auction contracts and the contracts they call: *)
(*   - YizhenAuctionMinimal  (escrow ledger pendingReturns, anti-snipe,    *)
(*     endAuction with fee split and NFT mint),                            *)
(*   - YizhenCeramicsNFT     (the ownership record minted at settlement),  *)
(*   - ComplianceRegistry    (checkTransaction / recordTransaction),       *)
(*   - YizhenAuctionWithCompliance (placeBid gated by the registry).       *)
(*                                                                         *)
(* One transaction of a contract is one action.  A transaction that        *)
(* reverts leaves the contract storage as it was (EVM semantics): it is no *)
(* step, and the operator <Name>Result tells in every state how a call     *)
(* would end.  The variable `call` records the last transaction that went  *)
(* through.  Variables named g_* are history variables: they record ether  *)
(* movements and are never read by an action's guard.                      *)
(*                                                                         *)
(* The two auction contracts are alternatives: a deployment runs one of   *)
(* them (`deployed`), next to the NFT contract and the registry.  They     *)
(* share no storage.                                                       *)
(*                                                                         *)
(* Amounts of the Minimal contract are in wei; msg.value is taken below    *)
(* 2^128 (the ether supply), so uint128(msg.value) is the identity.        *)
(*                                                                         *)
(* In front of the contracts runs the browser-side compliance layer:       *)
(*   - ComplianceAIAgent.determineOverallStatus (a pure function),         *)
(*   - ComplianceIntegration, which wraps Web3Manager.placeBid.            *)
(* One synchronous stretch of a wrapped call is one action; the call of    *)
(* the original placeBid and its return are separate steps.  This layer    *)
(* and the contracts share no state.                                       *)
(***************************************************************************)
EXTENDS Integers, Naturals, Sequences, FiniteSets, TLC

\* ------------------------------------------------------------------ bounds
\* bids and prices are multiples of BidQuantum, up to MaxBidQuanta of them
BidQuantum == 50
MaxBidQuanta == 4
\* cap on the ether deposited into one auction (bids may repeat when the
\* increment is 0)
MaxDepositQuanta == 9
\* number of five-minute extension rounds the clock is followed through
MaxExtensions == 1
\* block.timestamp at deployment
Genesis == 1
\* bids on YizhenAuctionWithCompliance are multiples of WBidQuantum (in the
\* registry's unit of 1e6), up to MaxWBidQuanta of them
WBidQuantum == 150
MaxWBidQuanta == 4

\* ------------------------------------------------------- program constants
HOUR == 3600
FIVE_MINUTES == 300
THIRTY_DAYS == 2592000
platformFeePercentage == 250
FEE_DENOMINATOR == 10000
DAY == 86400
MONTH == 2592000
highRiskThreshold == 7000
MAX_RISK_SCORE == 10000

\* ---------------------------------------------------------------- addresses
NoAddr == "0x0"
Owner == "owner"
FeeRecipient == "fee"
AuctionAddr == "auction"
Bidders == {"alice", "bob"}
\* an address the ownership of YizhenAuctionMinimal may be transferred to
Successor == "successor"
Addr == Bidders \cup {Owner, FeeRecipient, Successor}

WAuctionAddr == "auctionWithCompliance"
Outsider == "mallory"

\* auction ids whose storage the model follows, in each auction contract
AuctionIds == {0, 1}
WAuctionIds == {0}
Lots == {"", "YZ-001"}

BidValues == {k * BidQuantum : k \in 1 .. MaxBidQuanta}
StartChoices == {0, 2 * BidQuantum}
ReserveChoices == {3 * BidQuantum}
IncChoices == {BidQuantum, 2 * BidQuantum}
DurationChoices == {HOUR - 1, HOUR, THIRTY_DAYS + 1}
WBidValues == {k * WBidQuantum : k \in 1 .. MaxWBidQuanta}

\* the block timestamps the clock visits: deployment, and around each
\* possible end time of an auction created at deployment
Times ==
    {Genesis, Genesis + HOUR - 2 * FIVE_MINUTES}
    \cup {Genesis + HOUR + k * FIVE_MINUTES + o :
            k \in (-1) .. MaxExtensions, o \in {0, 1}}

\* ComplianceStatus and KYCLevel enums
UNKNOWN == "UNKNOWN"
PENDING == "PENDING"
APPROVED == "APPROVED"
CONDITIONAL == "CONDITIONAL"
REVIEW == "REVIEW"
BLOCKED == "BLOCKED"
\* ComplianceIntegration: config.maxBidWithoutKYC (USD), the age of a stored
\* result that preTransactionCheck accepts, the delay of the clean-up timer
maxBidWithoutKYC == 10000
FIVE_MINUTES_MS == 300000
ONE_HOUR_MS == 3600000
KYC_NONE == 0
KYC_BASIC == 1
KYC_ENHANCED == 2
KYC_INSTITUTIONAL == 3
KYCLevels == {KYC_NONE, KYC_BASIC, KYC_ENHANCED, KYC_INSTITUTIONAL}

\* registry amounts are in units of 1e6 (the factor of _setDefaultLimits)
DefaultLimits ==
    [l \in KYCLevels |->
        CASE l = KYC_NONE ->
               [dailyLimit |-> 1000, monthlyLimit |-> 5000,
                perTransactionLimit |-> 500]
          [] l = KYC_BASIC ->
               [dailyLimit |-> 10000, monthlyLimit |-> 50000,
                perTransactionLimit |-> 5000]
          [] l = KYC_ENHANCED ->
               [dailyLimit |-> 100000, monthlyLimit |-> 1000000,
                perTransactionLimit |-> 50000]
          [] OTHER ->
               [dailyLimit |-> 10000000, monthlyLimit |-> 100000000,
                perTransactionLimit |-> 5000000]]

RestrictedJurisdictions == {"KP", "IR", "CU", "SY", "RU"}

VARIABLES
    deployed,           \* which auction contract this deployment runs
    now,                \* block.timestamp
    owner,              \* YizhenAuctionMinimal: Ownable.owner()
    nextAuctionId,      \* YizhenAuctionMinimal.nextAuctionId
    auctions,           \* YizhenAuctionMinimal.auctions
    auctionMetadata,    \* YizhenAuctionMinimal.auctionMetadata (lotNumber)
    pendingReturns,     \* YizhenAuctionMinimal.pendingReturns
    nftAuctionContract, \* YizhenCeramicsNFT.auctionContract
    ceramics,           \* YizhenCeramicsNFT: the minted tokens, by token id
    userCompliance,     \* ComplianceRegistry.userCompliance
    sanctionsList,      \* ComplianceRegistry.sanctionsList
    dailyVolume,        \* ComplianceRegistry.dailyVolume
    monthlyVolume,      \* ComplianceRegistry.monthlyVolume
    lastActivityDate,   \* ComplianceRegistry.lastActivityDate
    transactionLimits,  \* ComplianceRegistry.transactionLimits
    roles,              \* ComplianceRegistry: AccessControl role members
    auctionCounter,     \* YizhenAuctionWithCompliance.auctionCounter
    wAuctions,          \* YizhenAuctionWithCompliance.auctions
    call,               \* the last transaction: op, arguments, outcome
    g_deposited,        \* per Minimal auction: ether taken in by accepted bids
    g_disbursed,        \* per Minimal auction: ether sent to seller and fee recipient
    g_withdrawn,        \* per Minimal auction and bidder: ether sent by withdraw
    g_credited,         \* per Minimal auction and bidder: ether credited to escrow
    g_paid,             \* per address: ether the contracts transferred to it
    g_seller,           \* per Minimal auction: msg.sender of its createAuction
    g_recorded,         \* per user: <<time, amount>> totals of recordTransaction
    results,            \* ComplianceAIAgent: argument of determineOverallStatus
    overallStatus,      \* ComplianceAIAgent: what determineOverallStatus returned
    userAccount,        \* Web3Manager.userAccount
    complianceMode,     \* ComplianceIntegration.config.complianceMode
    dateNow,            \* Date.now(), in milliseconds
    complianceHooks,    \* ComplianceIntegration.complianceHooks
    pendingTransactions, \* ComplianceIntegration.pendingTransactions
    awaiting,           \* wrapped placeBid calls waiting for the original bid
    txCounter,          \* transaction ids handed out by generateTransactionId
    placedBids,         \* calls of the original Web3Manager.placeBid
    kycRequests,        \* calls of ComplianceIntegration.requestKYC
    monitoringTimers,   \* setInterval timers of RiskMonitoringAgent not cleared
    alerts,             \* RiskMonitoringAgent.alerts: monitoringId per wallet
    timerCounter        \* ids handed out by setInterval

minimalVars == <<owner, nextAuctionId, auctions, auctionMetadata, pendingReturns>>
nftVars == <<nftAuctionContract, ceramics>>
volumeVars == <<dailyVolume, monthlyVolume, lastActivityDate>>
registryVars == <<userCompliance, sanctionsList, volumeVars, transactionLimits,
                  roles>>
wVars == <<auctionCounter, wAuctions>>
ghostVars == <<g_deposited, g_disbursed, g_withdrawn, g_credited, g_paid,
               g_seller>>

agentVars == <<results, overallStatus>>
integrationVars == <<userAccount, complianceMode, dateNow, complianceHooks,
                     pendingTransactions, awaiting, txCounter, placedBids,
                     kycRequests>>
monitorVars == <<monitoringTimers, alerts, timerCounter>>
offchainVars == <<agentVars, integrationVars, monitorVars>>
chainVars == <<deployed, now, minimalVars, nftVars, registryVars, wVars,
               ghostVars, g_recorded>>

vars == <<chainVars, call, offchainVars>>

\* ------------------------------------------------------------ data model
\* a storage slot never written: every field zero
ZeroAuction ==
    [startingPrice |-> 0, reservePrice |-> 0, minBidIncrement |-> 0,
     highestBid |-> 0, startTime |-> 0, endTime |-> 0,
     highestBidder |-> NoAddr, ended |-> FALSE, nftMinted |-> FALSE]

ZeroWAuction ==
    [seller |-> NoAddr, startPrice |-> 0, currentBid |-> 0,
     currentBidder |-> NoAddr, endTime |-> 0, ended |-> FALSE]

ZeroCompliance ==
    [status |-> UNKNOWN, kycLevel |-> KYC_NONE, riskScore |-> 0,
     kycExpiry |-> 0, jurisdiction |-> "", sanctioned |-> FALSE]

Call(op, id, who, value, result) ==
    [op |-> op, id |-> id, who |-> who, value |-> value, result |-> result]

\* a revert that keeps what the transaction had written before it failed
WrittenKept(before, written) == written

\* a reverted transaction: every storage write it made, in any contract, is
\* undone and the state is the one before the call
RolledBack(before, written) == before

\* Pausable is inherited by both auction contracts, but no function of
\* either calls _pause()
AuctionPaused == FALSE

\* pause() sent to the deployed auction contract: neither contract declares
\* the function nor a fallback, so the call reverts whoever sends it
PauseResult(who) == "no such function"

Pause(who) ==
    /\ call' = Call("pause", 0, who, 0, PauseResult(who))
    /\ UNCHANGED <<chainVars, offchainVars>>

\* the registry's constructor grants the deployer these two roles
InitialRoles ==
    {<<"DEFAULT_ADMIN", Owner>>, <<"COMPLIANCE_OFFICER", Owner>>}

InitContracts ==
    /\ deployed \in {AuctionAddr, WAuctionAddr}
    /\ now = Genesis
    /\ owner = Owner
    /\ nextAuctionId = 0
    /\ auctions = [a \in AuctionIds |-> ZeroAuction]
    /\ auctionMetadata = [a \in AuctionIds |-> ""]
    /\ pendingReturns = [a \in AuctionIds |-> [b \in Addr |-> 0]]
    /\ nftAuctionContract = NoAddr
    /\ ceramics = <<>>
    /\ userCompliance = [u \in Bidders |-> ZeroCompliance]
    /\ sanctionsList = [u \in Bidders |-> FALSE]
    /\ dailyVolume = [u \in Bidders |-> 0]
    /\ monthlyVolume = [u \in Bidders |-> 0]
    /\ lastActivityDate = [u \in Bidders |-> 0]
    /\ transactionLimits = DefaultLimits
    /\ roles = InitialRoles
    /\ auctionCounter = 0
    /\ wAuctions = [a \in WAuctionIds |-> ZeroWAuction]
    /\ call = Call("constructor", 0, Owner, 0, "ok")
    /\ g_deposited = [a \in AuctionIds |-> 0]
    /\ g_disbursed = [a \in AuctionIds |-> 0]
    /\ g_withdrawn = [a \in AuctionIds |-> [b \in Addr |-> 0]]
    /\ g_credited = [a \in AuctionIds |-> [b \in Addr |-> 0]]
    /\ g_paid = [b \in Addr |-> 0]
    /\ g_seller = [a \in AuctionIds |-> NoAddr]
    /\ g_recorded = [u \in Bidders |-> {}]

\* the agent before any analysis: every check clear
CleanResults ==
    [sanctionsResult |-> "clear", jurisdictionCheck |-> "allowed",
     amlResult |-> "clear", kycResult |-> "verified", riskScore |-> 0,
     transactionAnalysis |-> "normal"]

NoStatus == ""
NoCheck == [overallStatus |-> NoStatus, kyc |-> "", sanctions |-> ""]
NoHook == [result |-> NoCheck, timestamp |-> 0]

InitAgent ==
    /\ results = CleanResults
    /\ overallStatus = NoStatus

\* the integration as constructed: no wallet, empty maps
InitIntegration ==
    /\ userAccount = NoAddr
    /\ complianceMode = "strict"
    /\ dateNow = 0
    /\ complianceHooks = [w \in Bidders |-> NoHook]
    /\ pendingTransactions = {}
    /\ awaiting = {}
    /\ txCounter = 0
    /\ placedBids = 0
    /\ kycRequests = 0

\* RiskMonitoringAgent as constructed: no wallet monitored, no timer
NoTimer == 0

InitMonitor ==
    /\ monitoringTimers = {}
    /\ alerts = [w \in Bidders |-> NoTimer]
    /\ timerCounter = 0

Init == InitContracts /\ InitAgent /\ InitIntegration /\ InitMonitor

\* ------------------------------------------------------------------ clock
Tick(t) ==
    /\ t > now
    /\ now' = t
    /\ call' = Call("tick", 0, NoAddr, 0, "ok")
    /\ UNCHANGED <<offchainVars, g_recorded,
                   deployed, minimalVars, nftVars, registryVars, wVars, ghostVars>>

\* ------------------------------------------------- YizhenAuctionMinimal
\* Each *Result operator is the outcome of the call in the current state:
\* "ok", or the reason of the first require that fails.  A call whose result
\* is not "ok" reverts: the action is not enabled.

\* authorizedSellers is written by the constructor only, for the deployer
authorizedSellers(who) == who = Owner

onlyAuthorizedSeller(who) == authorizedSellers(who) \/ who = owner

\* Ownable.transferOwnership, inherited by YizhenAuctionMinimal
TransferOwnershipResult(who, newOwner) ==
    IF who # owner THEN "OwnableUnauthorizedAccount"
    ELSE IF newOwner = NoAddr THEN "OwnableInvalidOwner"
    ELSE "ok"

TransferOwnership(who, newOwner) ==
    /\ TransferOwnershipResult(who, newOwner) = "ok"
    /\ call' = Call("transferOwnership", 0, who, 0, "ok")
    /\ owner' = newOwner
    /\ UNCHANGED <<offchainVars, g_recorded,
                   deployed, now, nextAuctionId, auctions, auctionMetadata,
                   pendingReturns, nftVars, ghostVars, registryVars, wVars>>

CreateAuctionResult(who, startingPrice, duration) ==
    IF ~onlyAuthorizedSeller(who) THEN "Not authorized"
    ELSE IF AuctionPaused THEN "Paused"
    ELSE IF ~(startingPrice > 0) THEN "Invalid price"
    ELSE IF ~(duration >= HOUR /\ duration <= THIRTY_DAYS) THEN "Invalid duration"
    ELSE "ok"

NewAuction(startingPrice, reservePrice, minBidIncrement, duration) ==
    [startingPrice |-> startingPrice,
     reservePrice |-> reservePrice,
     minBidIncrement |-> minBidIncrement,
     highestBid |-> 0,
     startTime |-> now,
     endTime |-> now + duration,
     highestBidder |-> NoAddr,
     ended |-> FALSE,
     nftMinted |-> FALSE]

CreateAuction(who, startingPrice, reservePrice, minBidIncrement, duration) ==
    LET id == nextAuctionId
    IN  /\ CreateAuctionResult(who, startingPrice, duration) = "ok"
        /\ call' = Call("createAuction", id, who, startingPrice, "ok")
        /\ nextAuctionId' = nextAuctionId + 1
        /\ auctions' = [auctions EXCEPT ![id] =
               NewAuction(startingPrice, reservePrice, minBidIncrement, duration)]
        /\ g_seller' = [g_seller EXCEPT ![id] = who]
        /\ UNCHANGED <<offchainVars, g_recorded,
                       deployed, owner, now, auctionMetadata, pendingReturns,
                       nftVars, g_deposited, g_disbursed, g_withdrawn,
                       g_credited, g_paid, registryVars, wVars>>

SetAuctionMetadataResult(who, id) ==
    IF ~onlyAuthorizedSeller(who) THEN "Not authorized"
    ELSE IF ~(id < nextAuctionId) THEN "Invalid auction"
    ELSE IF auctions[id].ended THEN "Auction ended"
    ELSE "ok"

SetAuctionMetadata(who, id, lotNumber) ==
    /\ SetAuctionMetadataResult(who, id) = "ok"
    /\ call' = Call("setAuctionMetadata", id, who, 0, "ok")
    /\ auctionMetadata' = [auctionMetadata EXCEPT ![id] = lotNumber]
    /\ UNCHANGED <<offchainVars, g_recorded,
                   deployed, owner, now, nextAuctionId, auctions, pendingReturns,
                   nftVars, ghostVars, registryVars, wVars>>

\* minBid of placeBid
MinBid(a) ==
    IF a.highestBid = 0 THEN a.startingPrice
    ELSE a.highestBid + a.minBidIncrement

\* placeBid without its "Ended" and "Already ended" requires
PlaceBidResultAlwaysOpen(id, value) ==
    IF AuctionPaused THEN "Paused"
    ELSE IF ~(value >= MinBid(auctions[id])) THEN "Bid too low"
    ELSE "ok"

PlaceBidResult(id, value) ==
    IF AuctionPaused THEN "Paused"
    ELSE IF ~(now < auctions[id].endTime) THEN "Ended"
    ELSE IF auctions[id].ended THEN "Already ended"
    ELSE IF ~(value >= MinBid(auctions[id])) THEN "Bid too low"
    ELSE "ok"

\* the anti-snipe rule with the sign of the extension slipped
ExtendedEndTimeBackwards(endTime, t) ==
    IF endTime - t < FIVE_MINUTES THEN endTime - FIVE_MINUTES ELSE endTime

\* the anti-snipe rule at the end of placeBid
ExtendedEndTime(endTime, t) ==
    IF endTime - t < FIVE_MINUTES THEN endTime + FIVE_MINUTES ELSE endTime

\* a placeBid that forgets the escrow credit of the outbid bidder
CreditPreviousDropped(pr, a) == pr

\* pendingReturns[auctionId][auction.highestBidder] += auction.highestBid,
\* when there is a highest bidder (placeBid and the unsold branch of endAuction)
CreditPrevious(pr, a) ==
    IF a.highestBidder # NoAddr
    THEN [pr EXCEPT ![a.highestBidder] = @ + a.highestBid]
    ELSE pr

PlaceBid(id, who, value) ==
    LET a == auctions[id]
    IN  /\ PlaceBidResult(id, value) = "ok"
        /\ call' = Call("placeBid", id, who, value, "ok")
        /\ pendingReturns' = [pendingReturns EXCEPT ![id] = CreditPrevious(@, a)]
        /\ auctions' = [auctions EXCEPT ![id] =
               [@ EXCEPT !.highestBidder = who,
                         !.highestBid = value,
                         !.endTime = ExtendedEndTime(a.endTime, now)]]
        /\ g_deposited' = [g_deposited EXCEPT ![id] = @ + value]
        /\ g_credited' = [g_credited EXCEPT ![id] = CreditPrevious(@, a)]
        /\ UNCHANGED <<offchainVars, g_recorded,
                       deployed, owner, g_seller, now, nextAuctionId,
                       auctionMetadata, nftVars, g_disbursed, g_withdrawn, g_paid,
                       registryVars, wVars>>

\* a settlement condition that compares the bid with the starting price
SettlesAtStartingPrice(a) ==
    a.highestBidder # NoAddr /\ a.highestBid >= a.startingPrice

\* a settlement condition that ignores the reserve price
SettlesWithoutReserve(a) == a.highestBidder # NoAddr

\* endAuction's settlement condition
Settles(a) == a.highestBidder # NoAddr /\ a.highestBid >= a.reservePrice

PlatformFee(bid) == (bid * platformFeePercentage) \div FEE_DENOMINATOR
SellerProceeds(bid) == bid - PlatformFee(bid)

\* YizhenCeramicsNFT.mintCeramic called by `sender`; accepts: whether the
\* receiver check of _safeMint passes for the winner
MintCeramicResult(sender, accepts) ==
    IF sender # nftAuctionContract THEN "Only auction contract can mint"
    ELSE IF ~accepts THEN "Mint rejected"
    ELSE "ok"

\* a mint that hands the token to the seller who receives the proceeds
MintCeramicToSeller(winner, lotNumber, id) ==
    Append(ceramics, [owner |-> owner, originalMinter |-> owner,
                      lotNumber |-> lotNumber, auctionId |-> id,
                      shipped |-> FALSE, trackingNumber |-> "",
                      shippingAddress |-> ""])

\* token ids count from 0: token t is ceramics[t + 1]; its entry of the
\* shippingAddresses mapping is kept in the same record
MintCeramic(winner, lotNumber, id) ==
    Append(ceramics, [owner |-> winner, originalMinter |-> winner,
                      lotNumber |-> lotNumber, auctionId |-> id,
                      shipped |-> FALSE, trackingNumber |-> "",
                      shippingAddress |-> ""])

\* endAuction without its "Already ended" require
EndAuctionResultRepeatable(id, payOK, accepts) ==
    IF ~(now >= auctions[id].endTime) THEN "Not ended"
    ELSE IF ~Settles(auctions[id]) THEN "ok"
    ELSE IF ~payOK THEN "Transfer failed"
    ELSE MintCeramicResult(AuctionAddr, accepts)

\* payOK: both transfer() calls succeed; accepts: the winner accepts the token
EndAuctionResult(id, payOK, accepts) ==
    IF ~(now >= auctions[id].endTime) THEN "Not ended"
    ELSE IF auctions[id].ended THEN "Already ended"
    ELSE IF ~Settles(auctions[id]) THEN "ok"
    ELSE IF ~payOK THEN "Transfer failed"
    ELSE IF auctions[id].nftMinted THEN "Already minted"
    ELSE MintCeramicResult(AuctionAddr, accepts)

\* the transfers of the settled branch
PaySettlement(paid, bid) ==
    [b \in Addr |->
        paid[b]
        + (IF b = FeeRecipient THEN PlatformFee(bid) ELSE 0)
        + (IF b = owner THEN SellerProceeds(bid) ELSE 0)]

EndAuction(id, who, payOK, accepts) ==
    LET a == auctions[id]
    IN  /\ EndAuctionResult(id, payOK, accepts) = "ok"
        /\ call' = Call("endAuction", id, who, 0, "ok")
        /\ IF Settles(a)
           THEN /\ auctions' = [auctions EXCEPT ![id] =
                       [@ EXCEPT !.ended = TRUE, !.nftMinted = TRUE]]
                /\ ceramics' = MintCeramic(a.highestBidder, auctionMetadata[id], id)
                /\ g_disbursed' = [g_disbursed EXCEPT ![id] =
                       @ + PlatformFee(a.highestBid) + SellerProceeds(a.highestBid)]
                /\ g_paid' = PaySettlement(g_paid, a.highestBid)
                /\ UNCHANGED <<pendingReturns, g_credited>>
           ELSE /\ auctions' = [auctions EXCEPT ![id] = [@ EXCEPT !.ended = TRUE]]
                /\ pendingReturns' =
                       [pendingReturns EXCEPT ![id] = CreditPrevious(@, a)]
                /\ g_credited' = [g_credited EXCEPT ![id] = CreditPrevious(@, a)]
                /\ UNCHANGED <<ceramics, g_disbursed, g_paid>>
        /\ UNCHANGED <<offchainVars, g_recorded,
                       deployed, owner, g_seller, now, nextAuctionId,
                       auctionMetadata, nftAuctionContract, g_deposited,
                       g_withdrawn, registryVars, wVars>>

\* an endAuction that reverts. The two timing requires fail before anything is
\* written; a failing transfer or a failing mint comes after auction.ended =
\* true, and the mint after both transfers: the revert undoes them all.
EndAuctionReverted(id, who, payOK, accepts) ==
    LET a == auctions[id]
        reason == EndAuctionResult(id, payOK, accepts)
        flagged == reason \notin {"Not ended", "Already ended"}
        paid == flagged /\ reason # "Transfer failed"
    IN  /\ reason # "ok"
        /\ call' = Call("endAuction: reverted", id, who, 0, reason)
        /\ auctions' = RolledBack(auctions,
               IF flagged THEN [auctions EXCEPT ![id] = [@ EXCEPT !.ended = TRUE]]
               ELSE auctions)
        /\ g_paid' = RolledBack(g_paid,
               IF paid THEN PaySettlement(g_paid, a.highestBid) ELSE g_paid)
        /\ g_disbursed' = RolledBack(g_disbursed,
               IF paid THEN [g_disbursed EXCEPT ![id] = @ + a.highestBid]
               ELSE g_disbursed)
        /\ UNCHANGED <<offchainVars, g_recorded, deployed, owner, g_seller, now,
                       nextAuctionId, auctionMetadata, nftVars, pendingReturns,
                       g_deposited, g_withdrawn, g_credited, registryVars, wVars>>

\* a withdraw that waits for the auction to be finalized
WithdrawResultAfterEnd(id, who, payOK) ==
    IF ~auctions[id].ended THEN "Not ended"
    ELSE IF ~(pendingReturns[id][who] > 0) THEN "Nothing to withdraw"
    ELSE IF ~payOK THEN "Transfer failed"
    ELSE "ok"

WithdrawResult(id, who, payOK) ==
    IF ~(pendingReturns[id][who] > 0) THEN "Nothing to withdraw"
    ELSE IF ~payOK THEN "Transfer failed"
    ELSE "ok"

\* a withdraw that leaves the escrow entry in place
WithdrawnEntryKept(amount) == amount

\* pendingReturns[auctionId][msg.sender] = 0, before the transfer
WithdrawnEntry(amount) == 0

\* a withdraw that empties the escrow of the whole auction
WithdrawnAll(pr, who) == [u \in DOMAIN pr |-> 0]

\* the escrow of one auction after withdraw by `who`: only the caller's entry
\* is written
Withdrawn(pr, who) == [pr EXCEPT ![who] = WithdrawnEntry(pr[who])]

Withdraw(id, who, payOK) ==
    LET amount == pendingReturns[id][who]
    IN  /\ WithdrawResult(id, who, payOK) = "ok"
        /\ call' = Call("withdraw", id, who, amount, "ok")
        /\ pendingReturns' =
               [pendingReturns EXCEPT ![id] = Withdrawn(@, who)]
        /\ g_withdrawn' = [g_withdrawn EXCEPT ![id][who] = @ + amount]
        /\ g_paid' = [g_paid EXCEPT ![who] = @ + amount]
        /\ UNCHANGED <<offchainVars, g_recorded,
                       deployed, owner, g_seller, now, nextAuctionId, auctions,
                       auctionMetadata, nftVars, g_deposited, g_disbursed,
                       g_credited, registryVars, wVars>>

\* ---------------------------------------------------- YizhenCeramicsNFT
SetAuctionContractResult(who, c) ==
    IF who # Owner THEN "Not owner"
    ELSE IF c = NoAddr THEN "Invalid auction contract"
    ELSE "ok"

SetAuctionContract(who, c) ==
    /\ SetAuctionContractResult(who, c) = "ok"
    /\ call' = Call("setAuctionContract", 0, who, 0, "ok")
    /\ nftAuctionContract' = c
    /\ UNCHANGED <<offchainVars, g_recorded,
                   deployed, now, minimalVars, ceramics, ghostVars, registryVars, wVars>>

TokenExists(tokenId) == tokenId + 1 \in DOMAIN ceramics

TokenCall(op, tokenId, who, text) ==
    [op |-> op, id |-> tokenId, who |-> who, value |-> 0, result |-> "ok",
     text |-> text]

\* updateShippingAddress that asks for the winner of the auction instead of
\* the holder of the token
UpdateShippingAddressResultByMinter(who, tokenId, shippingAddress) ==
    IF ~TokenExists(tokenId) THEN "ERC721NonexistentToken"
    ELSE IF ceramics[tokenId + 1].originalMinter # who THEN "Not the owner"
    ELSE IF ceramics[tokenId + 1].shipped THEN "Already shipped"
    ELSE IF shippingAddress = "" THEN "Invalid address"
    ELSE "ok"

\* ownerOf reverts for a token that was never minted
UpdateShippingAddressResult(who, tokenId, shippingAddress) ==
    IF ~TokenExists(tokenId) THEN "ERC721NonexistentToken"
    ELSE IF ceramics[tokenId + 1].owner # who THEN "Not the owner"
    ELSE IF ceramics[tokenId + 1].shipped THEN "Already shipped"
    ELSE IF shippingAddress = "" THEN "Invalid address"
    ELSE "ok"

UpdateShippingAddress(who, tokenId, shippingAddress) ==
    /\ UpdateShippingAddressResult(who, tokenId, shippingAddress) = "ok"
    /\ call' = TokenCall("updateShippingAddress", tokenId, who, shippingAddress)
    /\ ceramics' = [ceramics EXCEPT ![tokenId + 1].shippingAddress =
                        shippingAddress]
    /\ UNCHANGED <<offchainVars, g_recorded,
                   deployed, now, minimalVars, nftAuctionContract, ghostVars,
                   registryVars, wVars>>

\* markAsShipped without its "No shipping address" require
MarkAsShippedResultWithoutAddress(who, tokenId) ==
    IF who # Owner THEN "Not owner"
    ELSE IF ~TokenExists(tokenId) THEN "ERC721NonexistentToken"
    ELSE IF ceramics[tokenId + 1].shipped THEN "Already shipped"
    ELSE "ok"

MarkAsShippedResult(who, tokenId) ==
    IF who # Owner THEN "Not owner"
    ELSE IF ~TokenExists(tokenId) THEN "ERC721NonexistentToken"
    ELSE IF ceramics[tokenId + 1].shipped THEN "Already shipped"
    ELSE IF ceramics[tokenId + 1].shippingAddress = "" THEN "No shipping address"
    ELSE "ok"

MarkAsShipped(who, tokenId, trackingNumber) ==
    /\ MarkAsShippedResult(who, tokenId) = "ok"
    /\ call' = TokenCall("markAsShipped", tokenId, who, trackingNumber)
    /\ ceramics' = [ceramics EXCEPT ![tokenId + 1].shipped = TRUE,
                                    ![tokenId + 1].trackingNumber = trackingNumber]
    /\ UNCHANGED <<offchainVars, g_recorded,
                   deployed, now, minimalVars, nftAuctionContract, ghostVars,
                   registryVars, wVars>>

\* ERC721.transferFrom by the holder; _update lets a token move whether or
\* not it was shipped
TransferFromResult(who, from, to, tokenId) ==
    IF to = NoAddr THEN "ERC721InvalidReceiver"
    ELSE IF ~TokenExists(tokenId) THEN "ERC721NonexistentToken"
    ELSE IF who # ceramics[tokenId + 1].owner THEN "ERC721InsufficientApproval"
    ELSE IF from # ceramics[tokenId + 1].owner THEN "ERC721IncorrectOwner"
    ELSE "ok"

TransferFrom(who, from, to, tokenId) ==
    /\ TransferFromResult(who, from, to, tokenId) = "ok"
    /\ call' = TokenCall("transferFrom", tokenId, who, to)
    /\ ceramics' = [ceramics EXCEPT ![tokenId + 1].owner = to]
    /\ UNCHANGED <<offchainVars, g_recorded,
                   deployed, now, minimalVars, nftAuctionContract, ghostVars,
                   registryVars, wVars>>

\* ---------------------------------------------------- ComplianceRegistry
\* userCompliance[user].lastUpdated is written and never read by a contract;
\* it is left out, as are the events.

HasRole(role, who) == <<role, who>> \in roles

\* a transaction of the registry: its caller, the user and status it names
RegistryCall(op, who, user, status, value) ==
    [op |-> op, id |-> 0, who |-> who, value |-> value, result |-> "ok",
     user |-> user, status |-> status]

\* AccessControl.grantRole, by the role's admin (DEFAULT_ADMIN)
GrantRole(who, role, account) ==
    /\ HasRole("DEFAULT_ADMIN", who)
    /\ <<role, account>> \notin roles
    /\ call' = Call("grantRole", 0, who, 0, "ok")
    /\ roles' = roles \cup {<<role, account>>}
    /\ UNCHANGED <<offchainVars, g_recorded,
                   deployed, now, minimalVars, nftVars, wVars, ghostVars, userCompliance,
                   sanctionsList, volumeVars, transactionLimits>>

\* an updateCompliance without the automatic block
StoredStatusAsPassed(status, riskScore) == status

\* the status updateCompliance stores
StoredStatus(status, riskScore) ==
    IF riskScore >= highRiskThreshold /\ status # BLOCKED THEN BLOCKED ELSE status

UpdateComplianceResult(who, riskScore) ==
    IF ~HasRole("COMPLIANCE_OFFICER", who) THEN "AccessControl"
    ELSE IF ~(riskScore <= MAX_RISK_SCORE) THEN "Invalid risk score"
    ELSE "ok"

UpdateCompliance(who, user, status, riskScore) ==
    /\ UpdateComplianceResult(who, riskScore) = "ok"
    /\ call' = RegistryCall("updateCompliance", who, user, status, riskScore)
    /\ userCompliance' = [userCompliance EXCEPT ![user] =
           [@ EXCEPT !.status = StoredStatus(status, riskScore),
                     !.riskScore = riskScore]]
    /\ UNCHANGED <<offchainVars, g_recorded,
                   deployed, now, minimalVars, nftVars, wVars, ghostVars, sanctionsList,
                   volumeVars, transactionLimits, roles>>

\* an updateKYC that approves whatever the status was
StatusAfterKYCAnyStatus(status, level) ==
    IF level >= KYC_BASIC THEN APPROVED ELSE status

\* the status updateKYC leaves
StatusAfterKYC(status, level) ==
    IF level >= KYC_BASIC /\ status = PENDING THEN APPROVED ELSE status

UpdateKYC(who, user, level, expiryDays) ==
    /\ HasRole("KYC_PROVIDER", who)
    /\ call' = RegistryCall("updateKYC", who, user, "", level)
    /\ userCompliance' = [userCompliance EXCEPT ![user] =
           [@ EXCEPT !.kycLevel = level,
                     !.kycExpiry = now + expiryDays * DAY,
                     !.status = StatusAfterKYC(@, level)]]
    /\ UNCHANGED <<offchainVars, g_recorded,
                   deployed, now, minimalVars, nftVars, wVars, ghostVars, sanctionsList,
                   volumeVars, transactionLimits, roles>>

_getCurrentDailyVolume(user) ==
    IF now > lastActivityDate[user] + DAY THEN 0 ELSE dailyVolume[user]

_getCurrentMonthlyVolume(user) ==
    IF now > lastActivityDate[user] + MONTH THEN 0 ELSE monthlyVolume[user]

Verdict(approved, reason) == [approved |-> approved, reason |-> reason]

\* checkTransaction without its final risk-score check
CheckTransactionWithoutRisk(user, amount) ==
    LET data == userCompliance[user]
        limits == transactionLimits[data.kycLevel]
    IN  IF data.sanctioned \/ sanctionsList[user]
        THEN Verdict(FALSE, "User is sanctioned")
        ELSE IF data.status = BLOCKED
        THEN Verdict(FALSE, "User is blocked")
        ELSE IF data.status = UNKNOWN
        THEN Verdict(FALSE, "Compliance check required")
        ELSE IF data.kycExpiry > 0 /\ now > data.kycExpiry
        THEN Verdict(FALSE, "KYC expired")
        ELSE IF amount > limits.perTransactionLimit
        THEN Verdict(FALSE, "Exceeds per-transaction limit")
        ELSE IF _getCurrentDailyVolume(user) + amount > limits.dailyLimit
        THEN Verdict(FALSE, "Exceeds daily limit")
        ELSE IF _getCurrentMonthlyVolume(user) + amount > limits.monthlyLimit
        THEN Verdict(FALSE, "Exceeds monthly limit")
        ELSE Verdict(TRUE, "Approved")

\* checkTransaction without its sanctions check
CheckTransactionWithoutSanctions(user, amount) ==
    LET data == userCompliance[user]
        limits == transactionLimits[data.kycLevel]
    IN  IF data.status = BLOCKED
        THEN Verdict(FALSE, "User is blocked")
        ELSE IF data.status = UNKNOWN
        THEN Verdict(FALSE, "Compliance check required")
        ELSE IF data.kycExpiry > 0 /\ now > data.kycExpiry
        THEN Verdict(FALSE, "KYC expired")
        ELSE IF amount > limits.perTransactionLimit
        THEN Verdict(FALSE, "Exceeds per-transaction limit")
        ELSE IF _getCurrentDailyVolume(user) + amount > limits.dailyLimit
        THEN Verdict(FALSE, "Exceeds daily limit")
        ELSE IF _getCurrentMonthlyVolume(user) + amount > limits.monthlyLimit
        THEN Verdict(FALSE, "Exceeds monthly limit")
        ELSE IF data.riskScore >= highRiskThreshold
        THEN Verdict(FALSE, "High risk - manual review required")
        ELSE Verdict(TRUE, "Approved")

\* checkTransaction with the KYC expiry checked before everything else
CheckTransactionExpiryFirst(user, amount) ==
    LET data == userCompliance[user]
        limits == transactionLimits[data.kycLevel]
    IN  IF data.kycExpiry > 0 /\ now > data.kycExpiry
        THEN Verdict(FALSE, "KYC expired")
        ELSE IF data.sanctioned \/ sanctionsList[user]
        THEN Verdict(FALSE, "User is sanctioned")
        ELSE IF data.status = BLOCKED
        THEN Verdict(FALSE, "User is blocked")
        ELSE IF data.status = UNKNOWN
        THEN Verdict(FALSE, "Compliance check required")
        ELSE IF amount > limits.perTransactionLimit
        THEN Verdict(FALSE, "Exceeds per-transaction limit")
        ELSE IF _getCurrentDailyVolume(user) + amount > limits.dailyLimit
        THEN Verdict(FALSE, "Exceeds daily limit")
        ELSE IF _getCurrentMonthlyVolume(user) + amount > limits.monthlyLimit
        THEN Verdict(FALSE, "Exceeds monthly limit")
        ELSE IF data.riskScore >= highRiskThreshold
        THEN Verdict(FALSE, "High risk - manual review required")
        ELSE Verdict(TRUE, "Approved")

\* checkTransaction(user, amount), a view function
CheckTransaction(user, amount) ==
    LET data == userCompliance[user]
        limits == transactionLimits[data.kycLevel]
    IN  IF data.sanctioned \/ sanctionsList[user]
        THEN Verdict(FALSE, "User is sanctioned")
        ELSE IF data.status = BLOCKED
        THEN Verdict(FALSE, "User is blocked")
        ELSE IF data.status = UNKNOWN
        THEN Verdict(FALSE, "Compliance check required")
        ELSE IF data.kycExpiry > 0 /\ now > data.kycExpiry
        THEN Verdict(FALSE, "KYC expired")
        ELSE IF amount > limits.perTransactionLimit
        THEN Verdict(FALSE, "Exceeds per-transaction limit")
        ELSE IF _getCurrentDailyVolume(user) + amount > limits.dailyLimit
        THEN Verdict(FALSE, "Exceeds daily limit")
        ELSE IF _getCurrentMonthlyVolume(user) + amount > limits.monthlyLimit
        THEN Verdict(FALSE, "Exceeds monthly limit")
        ELSE IF data.riskScore >= highRiskThreshold
        THEN Verdict(FALSE, "High risk - manual review required")
        ELSE Verdict(TRUE, "Approved")

\* an _updateVolumes that starts the daily counter afresh on every call
UpdatedDailyAlwaysReset(user, amount) ==
    [dailyVolume EXCEPT ![user] = amount]

\* _updateVolumes(user, amount): the three mappings after the call
UpdatedDaily(user, amount) ==
    [dailyVolume EXCEPT ![user] =
        IF now > lastActivityDate[user] + DAY THEN amount ELSE @ + amount]

UpdatedMonthly(user, amount) ==
    [monthlyVolume EXCEPT ![user] =
        IF now > lastActivityDate[user] + MONTH THEN amount ELSE @ + amount]

UpdatedActivity(user) == [lastActivityDate EXCEPT ![user] = now]

\* the amounts handed to _updateVolumes for the user, totalled per timestamp
Recorded(user, amount) ==
    LET before == {p \in g_recorded[user] : p[1] = now}
        total == IF before = {} THEN 0 ELSE (CHOOSE p \in before : TRUE)[2]
    IN  [g_recorded EXCEPT ![user] = (@ \ before) \cup {<<now, total + amount>>}]

\* recordTransaction as called by `sender`: reverts without RISK_MONITOR_ROLE
RecordTransactionResult(sender) ==
    IF ~HasRole("RISK_MONITOR", sender) THEN "AccessControl" ELSE "ok"

AddToSanctionsList(who, user) ==
    /\ HasRole("COMPLIANCE_OFFICER", who)
    /\ call' = RegistryCall("addToSanctionsList", who, user, "", 0)
    /\ sanctionsList' = [sanctionsList EXCEPT ![user] = TRUE]
    /\ userCompliance' = [userCompliance EXCEPT ![user] =
           [@ EXCEPT !.sanctioned = TRUE, !.status = BLOCKED]]
    /\ UNCHANGED <<offchainVars, g_recorded,
                   deployed, now, minimalVars, nftVars, wVars, ghostVars, volumeVars,
                   transactionLimits, roles>>

\* a removal from the list that also lifts the block
StatusAfterRemovalLifted(status) == IF status = BLOCKED THEN APPROVED ELSE status

\* removeFromSanctionsList clears the two flags and does not write the status
StatusAfterRemoval(status) == status

RemoveFromSanctionsList(who, user) ==
    /\ HasRole("COMPLIANCE_OFFICER", who)
    /\ call' = RegistryCall("removeFromSanctionsList", who, user, "", 0)
    /\ sanctionsList' = [sanctionsList EXCEPT ![user] = FALSE]
    /\ userCompliance' = [userCompliance EXCEPT ![user] =
           [@ EXCEPT !.sanctioned = FALSE,
                     !.status = StatusAfterRemoval(@)]]
    /\ UNCHANGED <<offchainVars, g_recorded,
                   deployed, now, minimalVars, nftVars, wVars, ghostVars, volumeVars,
                   transactionLimits, roles>>

\* batchUpdateCompliance with one entry per call: the loop body for one user
\* (a longer batch is the same writes repeated); it has neither the
\* riskScore require nor the automatic block of updateCompliance
BatchUpdateCompliance(who, user, status, riskScore) ==
    /\ HasRole("COMPLIANCE_OFFICER", who)
    /\ call' = RegistryCall("batchUpdateCompliance", who, user, status, riskScore)
    /\ userCompliance' = [userCompliance EXCEPT ![user] =
           [@ EXCEPT !.status = status, !.riskScore = riskScore]]
    /\ UNCHANGED <<offchainVars, g_recorded,
                   deployed, now, minimalVars, nftVars, wVars, ghostVars,
                   sanctionsList, volumeVars, transactionLimits, roles>>

\* the status setJurisdiction leaves
StatusAfterJurisdiction(status, jurisdiction) ==
    IF jurisdiction \in RestrictedJurisdictions THEN BLOCKED ELSE status

SetJurisdiction(who, user, jurisdiction) ==
    /\ HasRole("COMPLIANCE_OFFICER", who)
    /\ call' = RegistryCall("setJurisdiction", who, user, "", 0)
    /\ userCompliance' = [userCompliance EXCEPT ![user] =
           [@ EXCEPT !.jurisdiction = jurisdiction,
                     !.status = StatusAfterJurisdiction(@, jurisdiction)]]
    /\ UNCHANGED <<offchainVars, g_recorded,
                   deployed, now, minimalVars, nftVars, wVars, ghostVars,
                   sanctionsList, volumeVars, transactionLimits, roles>>

RecordTransaction(who, user, amount) ==
    /\ RecordTransactionResult(who) = "ok"
    /\ call' = RegistryCall("recordTransaction", who, user, "", amount)
    /\ dailyVolume' = UpdatedDaily(user, amount)
    /\ monthlyVolume' = UpdatedMonthly(user, amount)
    /\ lastActivityDate' = UpdatedActivity(user)
    /\ g_recorded' = Recorded(user, amount)
    /\ UNCHANGED <<offchainVars, deployed, now, minimalVars, nftVars, wVars,
                   ghostVars, userCompliance, sanctionsList, transactionLimits,
                   roles>>

UpdateTransactionLimits(who, level, daily, monthly, perTx) ==
    /\ HasRole("COMPLIANCE_OFFICER", who)
    /\ call' = RegistryCall("updateTransactionLimits", who, NoAddr, "", level)
    /\ transactionLimits' = [transactionLimits EXCEPT ![level] =
           [dailyLimit |-> daily, monthlyLimit |-> monthly,
            perTransactionLimit |-> perTx]]
    /\ UNCHANGED <<offchainVars, g_recorded,
                   deployed, now, minimalVars, nftVars, wVars, ghostVars,
                   userCompliance, sanctionsList, volumeVars, roles>>

\* ------------------------------------------ YizhenAuctionWithCompliance
\* artifactId is stored and never read; it is left out.  The contract has no
\* function that sets `ended` or that pays out the final bid.

WCreateAuctionResult(who) ==
    IF AuctionPaused THEN "Paused"
    ELSE IF ~CheckTransaction(who, 0).approved THEN "Seller not compliant"
    ELSE "ok"

WCreateAuction(who, startPrice, duration) ==
    LET id == auctionCounter
    IN  /\ WCreateAuctionResult(who) = "ok"
        /\ call' = Call("W.createAuction", id, who, startPrice, "ok")
        /\ auctionCounter' = auctionCounter + 1
        /\ wAuctions' = [wAuctions EXCEPT ![id] =
               [seller |-> who, startPrice |-> startPrice,
                currentBid |-> startPrice, currentBidder |-> NoAddr,
                endTime |-> now + duration, ended |-> FALSE]]
        /\ UNCHANGED <<offchainVars, g_recorded,
                       deployed, now, minimalVars, nftVars, registryVars, ghostVars>>

\* placeBid of YizhenAuctionWithCompliance without its compliance require
WPlaceBidResultUngated(id, who, value, payOK) ==
    IF AuctionPaused THEN "Paused"
    ELSE IF wAuctions[id].ended THEN "Auction ended"
    ELSE IF ~(now < wAuctions[id].endTime) THEN "Auction expired"
    ELSE IF ~(value > wAuctions[id].currentBid) THEN "Bid too low"
    ELSE IF wAuctions[id].currentBidder # NoAddr /\ ~payOK THEN "Transfer failed"
    ELSE "ok"

\* payOK: the transfer() that refunds the previous bidder succeeds
WPlaceBidResult(id, who, value, payOK) ==
    IF AuctionPaused THEN "Paused"
    ELSE IF wAuctions[id].ended THEN "Auction ended"
    ELSE IF ~(now < wAuctions[id].endTime) THEN "Auction expired"
    ELSE IF ~(value > wAuctions[id].currentBid) THEN "Bid too low"
    ELSE IF ~CheckTransaction(who, value).approved THEN "Compliance check failed"
    ELSE IF wAuctions[id].currentBidder # NoAddr /\ ~payOK THEN "Transfer failed"
    ELSE "ok"

\* payable(auction.currentBidder).transfer(auction.currentBid)
RefundPrevious(paid, a) ==
    IF a.currentBidder # NoAddr
    THEN [paid EXCEPT ![a.currentBidder] = @ + a.currentBid]
    ELSE paid

\* _recordComplianceTransaction: a failed recordTransaction is caught
WPlaceBid(id, who, value, payOK) ==
    LET a == wAuctions[id]
        recorded == RecordTransactionResult(WAuctionAddr) = "ok"
    IN  /\ WPlaceBidResult(id, who, value, payOK) = "ok"
        /\ call' = Call("W.placeBid", id, who, value, "ok")
        /\ dailyVolume' = IF recorded THEN UpdatedDaily(who, value) ELSE dailyVolume
        /\ monthlyVolume' =
               IF recorded THEN UpdatedMonthly(who, value) ELSE monthlyVolume
        /\ lastActivityDate' =
               IF recorded THEN UpdatedActivity(who) ELSE lastActivityDate
        /\ g_recorded' = IF recorded THEN Recorded(who, value) ELSE g_recorded
        /\ g_paid' = RefundPrevious(g_paid, a)
        /\ wAuctions' = [wAuctions EXCEPT ![id] =
               [@ EXCEPT !.currentBid = value, !.currentBidder = who]]
        /\ UNCHANGED <<offchainVars, deployed, g_seller, now, minimalVars, nftVars,
                       auctionCounter, userCompliance, sanctionsList,
                       transactionLimits, roles,
                       g_deposited, g_disbursed, g_withdrawn, g_credited>>

\* a placeBid of YizhenAuctionWithCompliance that reverts. The requires and
\* the compliance check fail before anything is written; the refund transfer
\* fails after _recordComplianceTransaction has written the registry's
\* counters (when the auction contract holds RISK_MONITOR_ROLE).
WPlaceBidReverted(id, who, value, payOK) ==
    LET reason == WPlaceBidResult(id, who, value, payOK)
        recorded == /\ reason = "Transfer failed"
                    /\ RecordTransactionResult(WAuctionAddr) = "ok"
    IN  /\ reason # "ok"
        /\ call' = Call("W.placeBid: reverted", id, who, value, reason)
        /\ dailyVolume' = RolledBack(dailyVolume,
               IF recorded THEN UpdatedDaily(who, value) ELSE dailyVolume)
        /\ monthlyVolume' = RolledBack(monthlyVolume,
               IF recorded THEN UpdatedMonthly(who, value) ELSE monthlyVolume)
        /\ lastActivityDate' = RolledBack(lastActivityDate,
               IF recorded THEN UpdatedActivity(who) ELSE lastActivityDate)
        /\ UNCHANGED <<offchainVars, deployed, now, minimalVars, nftVars,
                       auctionCounter, wAuctions, userCompliance, sanctionsList,
                       transactionLimits, roles, ghostVars, g_recorded>>

\* checkTransaction(user, amount) called on its own: a view function, the
\* caller gets the verdict and no storage is written
CheckTransactionCall(who, user, amount) ==
    /\ call' = [op |-> "checkTransaction", id |-> 0, who |-> who,
                value |-> amount, user |-> user,
                result |-> CheckTransaction(user, amount).reason]
    /\ UNCHANGED <<chainVars, offchainVars>>

\* ---------------------------------------------------- ComplianceAIAgent
\* The six results handed to determineOverallStatus, each by its status; the
\* risk score, a number between 0 and 1 in the code, is kept in hundredths.
SanctionsStatuses == {"clear", "blocked"}
JurisdictionStatuses == {"allowed", "restricted"}
AmlStatuses == {"clear", "review", "high-risk"}
KycStatuses == {"verified", "pending", "failed"}
RiskScores == {30, 50, 65, 85}
AnalysisStatuses == {"normal", "review", "suspicious"}

ResultInputs ==
    [sanctionsResult : SanctionsStatuses,
     jurisdictionCheck : JurisdictionStatuses,
     amlResult : AmlStatuses,
     kycResult : KycStatuses,
     riskScore : RiskScores,
     transactionAnalysis : AnalysisStatuses]

\* determineOverallStatus with the high-risk conditions looked at first
determineOverallStatusRiskFirst(r) ==
    IF \/ r.amlResult = "high-risk"
       \/ r.riskScore > 80
       \/ r.transactionAnalysis = "suspicious"
    THEN "manual-review"
    ELSE IF r.sanctionsResult = "blocked" \/ r.jurisdictionCheck = "restricted"
    THEN "blocked"
    ELSE IF r.kycResult = "pending"
    THEN "pending-verification"
    ELSE IF \/ r.amlResult = "review"
            \/ r.riskScore > 50
            \/ r.transactionAnalysis = "review"
    THEN "conditional-approval"
    ELSE IF /\ r.kycResult = "verified"
            /\ r.amlResult = "clear"
            /\ r.sanctionsResult = "clear"
            /\ r.riskScore < 50
    THEN "approved"
    ELSE "review-required"

determineOverallStatus(r) ==
    IF r.sanctionsResult = "blocked" \/ r.jurisdictionCheck = "restricted"
    THEN "blocked"
    ELSE IF \/ r.amlResult = "high-risk"
            \/ r.riskScore > 80
            \/ r.transactionAnalysis = "suspicious"
    THEN "manual-review"
    ELSE IF r.kycResult = "pending"
    THEN "pending-verification"
    ELSE IF \/ r.amlResult = "review"
            \/ r.riskScore > 50
            \/ r.transactionAnalysis = "review"
    THEN "conditional-approval"
    ELSE IF /\ r.kycResult = "verified"
            /\ r.amlResult = "clear"
            /\ r.sanctionsResult = "clear"
            /\ r.riskScore < 50
    THEN "approved"
    ELSE "review-required"

OffchainCall(op, id, who, value, result) ==
    [op |-> op, id |-> id, who |-> who, value |-> value, result |-> result]

\* one call of determineOverallStatus on the results at hand
DetermineOverallStatus ==
    /\ overallStatus = NoStatus
    /\ overallStatus' = determineOverallStatus(results)
    /\ call' = OffchainCall("determineOverallStatus", 0, NoAddr, 0,
                            determineOverallStatus(results))
    /\ UNCHANGED <<chainVars, results, integrationVars, monitorVars>>

\* what checkCompliance aggregates, as far as the integration reads it
AgentResult(r) ==
    [overallStatus |-> determineOverallStatus(r), kyc |-> r.kycResult,
     sanctions |-> r.sanctionsResult]

\* ------------------------------------------------ ComplianceIntegration
\* bids are in USD
MaxTx == 2
MaxKycRequests == 1
MaxTimers == 3
Artifacts == {1}
BidAmounts == {5000, 15000}
DateChoices == {400000, 4100000}
ComplianceModes == {"strict", "moderate", "light"}

\* the results the agent comes back with during a bid: a clean wallet with
\* verified or pending KYC, and a wallet with pending KYC that is sanctioned
\* or has a high-risk AML result
BidResults ==
    {r \in ResultInputs :
        /\ r.jurisdictionCheck = "allowed"
        /\ r.transactionAnalysis = "normal"
        /\ r.riskScore = 30
        /\ r.kycResult \in {"verified", "pending"}
        /\ \/ r.sanctionsResult = "clear" /\ r.amlResult = "clear"
           \/ /\ r.kycResult = "pending"
              /\ r.sanctionsResult = "blocked"
              /\ r.amlResult = "clear"
           \/ /\ r.kycResult = "pending"
              /\ r.sanctionsResult = "clear"
              /\ r.amlResult = "high-risk"}

Tock(t) ==
    /\ t > dateNow
    /\ dateNow' = t
    /\ call' = OffchainCall("tock", 0, NoAddr, 0, "ok")
    /\ UNCHANGED <<chainVars, agentVars, monitorVars, userAccount, complianceMode,
                   complianceHooks, pendingTransactions, awaiting, txCounter,
                   placedBids, kycRequests>>

\* config.realTimeMonitoring as the constructor sets it
realTimeMonitoring == TRUE

\* RiskMonitoringAgent.startMonitoring(walletAddress): a new interval timer,
\* and the wallet's entry of alerts set to a record holding its id
StartedTimers(w) ==
    monitoringTimers \cup {[id |-> timerCounter + 1, wallet |-> w]}

StartedAlerts(w) == [alerts EXCEPT ![w] = timerCounter + 1]

\* RiskMonitoringAgent.stopMonitoring(walletAddress): when the wallet has an
\* entry, clearInterval of the id stored there and the entry deleted
StoppedTimers(w) ==
    IF alerts[w] # NoTimer
    THEN {t \in monitoringTimers : t.id # alerts[w]}
    ELSE monitoringTimers

StoppedAlerts(w) == [alerts EXCEPT ![w] = NoTimer]

\* the wrapped connectWallet after the original connected wallet w:
\* checkWalletCompliance stores the agent's result for w; unless the wallet
\* is blocked, monitoring is started when config.realTimeMonitoring is set
ConnectWallet(w, r) ==
    LET monitored == /\ AgentResult(r).overallStatus # "blocked"
                     /\ realTimeMonitoring
    IN  /\ monitored => timerCounter < MaxTimers
        /\ userAccount' = w
        /\ complianceHooks' = [complianceHooks EXCEPT ![w] =
               [result |-> AgentResult(r), timestamp |-> dateNow]]
        /\ call' = OffchainCall("web3.connectWallet", 0, w, 0,
               IF AgentResult(r).overallStatus = "blocked" THEN "false"
               ELSE "true")
        /\ monitoringTimers' =
               IF monitored THEN StartedTimers(w) ELSE monitoringTimers
        /\ alerts' = IF monitored THEN StartedAlerts(w) ELSE alerts
        /\ timerCounter' = IF monitored THEN timerCounter + 1 ELSE timerCounter
        /\ UNCHANGED <<chainVars, agentVars, complianceMode, dateNow,
                       pendingTransactions, awaiting, txCounter, placedBids,
                       kycRequests>>

\* riskMonitor.stopMonitoring(w) called on its own
StopMonitoring(w) ==
    /\ monitoringTimers' = StoppedTimers(w)
    /\ alerts' = StoppedAlerts(w)
    /\ call' = OffchainCall("riskMonitor.stopMonitoring", 0, w, 0, "ok")
    /\ UNCHANGED <<chainVars, agentVars, integrationVars, timerCounter>>

\* the provider announces accounts = [a]. Web3Manager.handleAccountsChanged
\* stores a in userAccount; the listener of the integration stops monitoring
\* of web3Manager.userAccount, when that is set, and then stores a fresh
\* compliance result for a. Both listen on window.ethereum and run in the
\* order they were registered, which depends on how long Web3Manager.init
\* and the integration's wait for window.app took: web3First.
AccountsChanged(a, web3First, r) ==
    LET seen == IF web3First THEN a ELSE userAccount
    IN  /\ userAccount' = a
        /\ monitoringTimers' =
               IF seen # NoAddr THEN StoppedTimers(seen) ELSE monitoringTimers
        /\ alerts' = IF seen # NoAddr THEN StoppedAlerts(seen) ELSE alerts
        /\ complianceHooks' = [complianceHooks EXCEPT ![a] =
               [result |-> AgentResult(r), timestamp |-> dateNow]]
        /\ call' = [op |-> "accountsChanged", id |-> 0, who |-> a, value |-> 0,
                    result |-> "ok", old |-> userAccount]
        /\ UNCHANGED <<chainVars, agentVars, complianceMode, dateNow,
                       pendingTransactions, awaiting, txCounter, placedBids,
                       kycRequests, timerCounter>>

\* an interval timer fires: performMonitoringCheck(walletAddress)
MonitoringCheck(t) ==
    /\ t \in monitoringTimers
    /\ call' = OffchainCall("performMonitoringCheck", t.id, t.wallet, 0, "ok")
    /\ UNCHANGED <<chainVars, offchainVars>>

Cached(w) ==
    /\ complianceHooks[w] # NoHook
    /\ dateNow - complianceHooks[w].timestamp < FIVE_MINUTES_MS

isTransactionApproved(complianceResult) ==
    IF complianceMode = "strict"
    THEN complianceResult.overallStatus
             \notin {"blocked", "high-risk", "manual-review"}
    ELSE IF complianceMode = "moderate"
    THEN complianceResult.overallStatus # "blocked"
    ELSE complianceResult.sanctions # "blocked"

\* preTransactionCheck(walletAddress, ...): r is what the agent returns when
\* the stored result is missing or older than five minutes
preTransactionCheck(w, r) ==
    LET complianceResult ==
            IF Cached(w) THEN complianceHooks[w].result ELSE AgentResult(r)
    IN  [approved |-> IF Cached(w)
                      THEN complianceResult.overallStatus # "blocked"
                      ELSE isTransactionApproved(complianceResult),
         overallStatus |-> complianceResult.overallStatus,
         kyc |-> complianceResult.kyc,
         sanctions |-> complianceResult.sanctions]

\* the call threw before preTransactionCheck
NotChecked ==
    [approved |-> FALSE, overallStatus |-> NoStatus, kyc |-> "",
     sanctions |-> ""]

\* a wrapped placeBid that lets an approved wallet bid any amount
PlaceBidOutcomeWithoutKYC(w, bidAmount, complianceCheck) ==
    IF w = NoAddr THEN "throws: Wallet not connected"
    ELSE IF ~complianceCheck.approved
    THEN "throws: handleRejectedTransaction is not a function"
    ELSE "awaiting"

\* how the wrapped placeBid leaves its synchronous part: by an exception, by
\* return false, or waiting for the original placeBid. The class has no
\* method handleRejectedTransaction, so the call on the rejected branch throws
\* and the catch block rethrows.
PlaceBidOutcome(w, bidAmount, complianceCheck) ==
    IF w = NoAddr THEN "throws: Wallet not connected"
    ELSE IF ~complianceCheck.approved
    THEN "throws: handleRejectedTransaction is not a function"
    ELSE IF bidAmount > maxBidWithoutKYC /\ complianceCheck.kyc # "verified"
    THEN "false"
    ELSE "awaiting"

\* an entry stored with its final status
PendingTransactionCompleted(txId, w, artifactId, bidAmount, complianceCheck) ==
    [txId |-> txId, walletAddress |-> w, type |-> "bid",
     artifactId |-> artifactId, amount |-> bidAmount, status |-> "completed",
     complianceCheck |-> complianceCheck.overallStatus, expires |-> 0]

PendingTransaction(txId, w, artifactId, bidAmount, complianceCheck) ==
    [txId |-> txId, walletAddress |-> w, type |-> "bid",
     artifactId |-> artifactId, amount |-> bidAmount, status |-> "pending",
     complianceCheck |-> complianceCheck.overallStatus, expires |-> 0]

\* Web3Manager.placeBid as overridePlaceBid leaves it, up to the call of the
\* original placeBid
WrappedPlaceBid(artifactId, bidAmount, r) ==
    LET w == userAccount
        complianceCheck == IF w = NoAddr THEN NotChecked
                           ELSE preTransactionCheck(w, r)
        outcome == PlaceBidOutcome(w, bidAmount, complianceCheck)
        txId == txCounter + 1
    IN  /\ outcome = "awaiting" => txCounter < MaxTx
        /\ outcome = "false" => kycRequests < MaxKycRequests
        /\ call' = [op |-> "web3.placeBid", id |-> artifactId, who |-> w,
                    value |-> bidAmount, result |-> outcome,
                    check |-> complianceCheck]
        /\ kycRequests' = IF outcome = "false" THEN kycRequests + 1
                          ELSE kycRequests
        /\ IF outcome = "awaiting"
           THEN /\ pendingTransactions' = pendingTransactions \cup
                       {PendingTransaction(txId, w, artifactId, bidAmount,
                                           complianceCheck)}
                /\ txCounter' = txId
                /\ awaiting' = awaiting \cup {txId}
                /\ placedBids' = placedBids + 1
           ELSE UNCHANGED <<pendingTransactions, txCounter, awaiting, placedBids>>
        /\ UNCHANGED <<chainVars, agentVars, monitorVars, userAccount, complianceMode,
                       dateNow, complianceHooks>>

\* postTransactionCompliance(txId, result): the entry, if still there, gets
\* its final status and a timer that deletes it an hour later
Completed(tx, result) ==
    [tx EXCEPT !.status = IF result THEN "completed" ELSE "failed",
               !.expires = dateNow + ONE_HOUR_MS]

\* the original placeBid resolves with `result`
OriginalBidReturns(txId, result) ==
    /\ txId \in awaiting
    /\ awaiting' = awaiting \ {txId}
    /\ pendingTransactions' =
           {IF tx.txId = txId THEN Completed(tx, result) ELSE tx :
                tx \in pendingTransactions}
    /\ call' = OffchainCall("web3.placeBid: resolved", txId, userAccount, 0,
                            IF result THEN "true" ELSE "false")
    /\ UNCHANGED <<chainVars, agentVars, monitorVars, userAccount, complianceMode, dateNow,
                   complianceHooks, txCounter, placedBids, kycRequests>>

\* the original placeBid rejects: the wrapper rethrows, the entry stays
OriginalBidThrows(txId) ==
    /\ txId \in awaiting
    /\ awaiting' = awaiting \ {txId}
    /\ call' = OffchainCall("web3.placeBid: rejected", txId, userAccount, 0,
                            "throws")
    /\ UNCHANGED <<chainVars, agentVars, monitorVars, userAccount, complianceMode, dateNow,
                   complianceHooks, pendingTransactions, txCounter, placedBids,
                   kycRequests>>

\* the timer set by postTransactionCompliance fires
CleanUp(txId) ==
    /\ \E tx \in pendingTransactions :
           tx.txId = txId /\ tx.expires > 0 /\ dateNow >= tx.expires
    /\ pendingTransactions' = {tx \in pendingTransactions : tx.txId # txId}
    /\ call' = OffchainCall("cleanUp", txId, NoAddr, 0, "ok")
    /\ UNCHANGED <<chainVars, agentVars, monitorVars, userAccount, complianceMode, dateNow,
                   complianceHooks, awaiting, txCounter, placedBids,
                   kycRequests>>

\* ------------------------------------------------------------ specification
\* YizhenAuctionMinimal and the NFT contract: one auction is created; calls
\* on the never-created id 1 are made too
InitMinimal == Init /\ deployed = AuctionAddr

Next ==
    \/ \E t \in Times : Tick(t)
    \/ /\ nextAuctionId = 0
       /\ \E who \in {Owner, "alice"}, sp \in StartChoices, rp \in ReserveChoices,
             inc \in IncChoices, d \in DurationChoices :
             CreateAuction(who, sp, rp, inc, d)
    \/ \E who \in {Owner, "alice"}, id \in AuctionIds, lot \in Lots :
          SetAuctionMetadata(who, id, lot)
    \/ \E id \in AuctionIds, who \in Bidders, v \in BidValues :
          /\ g_deposited[id] + v <= MaxDepositQuanta * BidQuantum
          /\ PlaceBid(id, who, v)
    \/ \E id \in AuctionIds, payOK \in BOOLEAN, accepts \in BOOLEAN :
          EndAuction(id, "alice", payOK, accepts)
    \/ \E id \in AuctionIds, who \in Bidders, payOK \in BOOLEAN :
          Withdraw(id, who, payOK)
    \/ \E who \in {Owner, "alice"}, c \in {AuctionAddr, NoAddr} :
          SetAuctionContract(who, c)

Spec == InitMinimal /\ [][Next]_vars

\* either auction contract next to the registry: one auction, created by a
\* fixed call; the registry's officers act in both deployments
GateTimes ==
    {Genesis + HOUR - FIVE_MINUTES, Genesis + HOUR - 1, Genesis + HOUR}

NextGate ==
    \/ \E t \in GateTimes : Tick(t)
    \/ /\ deployed = AuctionAddr
       /\ nextAuctionId = 0
       /\ CreateAuction(Owner, 2 * BidQuantum, 3 * BidQuantum, BidQuantum, HOUR)
    \/ /\ deployed = AuctionAddr
       /\ \E who \in Bidders, v \in BidValues : PlaceBid(0, who, v)
    \/ GrantRole(Owner, "RISK_MONITOR", WAuctionAddr)
    \/ \E who \in {Owner, Outsider}, u \in Bidders,
          risk \in {0, highRiskThreshold, MAX_RISK_SCORE + 1} :
          UpdateCompliance(who, u, APPROVED, risk)
    \/ \E who \in {Owner, Outsider}, u \in Bidders : AddToSanctionsList(who, u)
    \/ /\ deployed = WAuctionAddr
       /\ auctionCounter = 0
       /\ \E who \in Bidders : WCreateAuction(who, WBidQuantum, HOUR)
    \/ /\ deployed = WAuctionAddr
       /\ \E who \in Bidders, v \in WBidValues, payOK \in BOOLEAN :
             WPlaceBid(0, who, v, payOK)

SpecGate == Init /\ [][NextGate]_vars

\* Two auctions of YizhenAuctionMinimal side by side, with fixed terms; either
\* may carry the lot number or none
PairTimes == {Genesis + HOUR, Genesis + HOUR + 1}
PairBids == {2 * BidQuantum, 3 * BidQuantum}

NextPair ==
    \/ \E t \in PairTimes : Tick(t)
    \/ /\ nextAuctionId \in AuctionIds
       /\ CreateAuction(Owner, 2 * BidQuantum, 3 * BidQuantum, BidQuantum, HOUR)
    \/ \E id \in AuctionIds, lot \in Lots : SetAuctionMetadata(Owner, id, lot)
    \/ \E id \in AuctionIds, who \in Bidders, v \in PairBids : PlaceBid(id, who, v)
    \/ \E id \in AuctionIds, payOK \in BOOLEAN, accepts \in BOOLEAN :
           EndAuction(id, "bob", payOK, accepts)
    \/ \E id \in AuctionIds, who \in Bidders : Withdraw(id, who, TRUE)
    \/ SetAuctionContract(Owner, AuctionAddr)

SpecPair == InitMinimal /\ [][NextPair]_vars

\* One auction of YizhenAuctionMinimal from creation to settlement, with the
\* ownership of the contract changing hands
SettleTimes == {Genesis + HOUR}

NextSettle ==
    \/ \E t \in SettleTimes : Tick(t)
    \/ \E who \in {Owner, Successor, "alice"}, newOwner \in {Owner, Successor} :
           TransferOwnership(who, newOwner)
    \/ /\ nextAuctionId = 0
       /\ \E who \in {Owner, Successor, "alice"} :
              CreateAuction(who, 2 * BidQuantum, 3 * BidQuantum, BidQuantum, HOUR)
    \/ \E who \in Bidders, v \in BidValues :
           /\ g_deposited[0] + v <= MaxDepositQuanta * BidQuantum
           /\ PlaceBid(0, who, v)
    \/ \E payOK \in BOOLEAN, accepts \in BOOLEAN : EndAuction(0, "bob", payOK, accepts)
    \/ \E payOK \in BOOLEAN, accepts \in BOOLEAN :
           EndAuctionReverted(0, "bob", payOK, accepts)
    \/ \E who \in Bidders, payOK \in BOOLEAN : Withdraw(0, who, payOK)
    \/ SetAuctionContract(Owner, AuctionAddr)

SpecSettle == InitMinimal /\ [][NextSettle]_vars

\* Creation of auctions on either contract, over valid and invalid arguments
CreatePrices == {0, BidQuantum, 2 * BidQuantum}
CreateReserves == {0, BidQuantum, 3 * BidQuantum}
CreateDurations == {HOUR - 1, HOUR, THIRTY_DAYS, THIRTY_DAYS + 1}
WCreatePrices == {0, WBidQuantum}
WCreateDurations == {0, HOUR}

NextCreate ==
    \/ /\ deployed = AuctionAddr
       /\ nextAuctionId \in AuctionIds
       /\ \E who \in {Owner, "alice"}, sp \in CreatePrices, rp \in CreateReserves,
             inc \in IncChoices, d \in CreateDurations :
              CreateAuction(who, sp, rp, inc, d)
    \/ \E u \in Bidders : UpdateCompliance(Owner, u, APPROVED, 0)
    \/ /\ deployed = WAuctionAddr
       /\ auctionCounter \in WAuctionIds
       /\ \E who \in Bidders, sp \in WCreatePrices, d \in WCreateDurations :
              WCreateAuction(who, sp, d)
    \/ \E who \in {Owner, "alice"} : Pause(who)

SpecCreate == Init /\ [][NextCreate]_vars

\* The registry on its own, for one user: every operation that writes the
\* user's profile, the sanctions list, the limits or the volume counters
ScenarioRisk == highRiskThreshold + 1500
RegistryTimes == {Genesis + 3 * DAY}
Amounts == {0, 300, 600}
Jurisdictions == {"US", "KP"}
RegistryUsers == {"alice"}

NextRegistry ==
    \/ \E t \in RegistryTimes : Tick(t)
    \/ \E role \in {"KYC_PROVIDER", "RISK_MONITOR"} : GrantRole(Owner, role, Owner)
    \/ \E who \in {Owner, Outsider}, u \in RegistryUsers,
          status \in {PENDING, APPROVED, BLOCKED}, risk \in {0, ScenarioRisk} :
           UpdateCompliance(who, u, status, risk)
    \/ \E u \in RegistryUsers, status \in {APPROVED, BLOCKED},
          risk \in {0, ScenarioRisk} :
           BatchUpdateCompliance(Owner, u, status, risk)
    \/ \E u \in RegistryUsers, days \in {0, 2} : UpdateKYC(Owner, u, KYC_BASIC, days)
    \/ \E u \in RegistryUsers, j \in Jurisdictions : SetJurisdiction(Owner, u, j)
    \/ \E u \in RegistryUsers, amount \in Amounts \ {0} :
           /\ dailyVolume[u] = 0 \/ now > lastActivityDate[u] + DAY
           /\ RecordTransaction(Owner, u, amount)
    \/ UpdateTransactionLimits(Owner, KYC_BASIC, 300, 300, 300)
    \/ \E u \in RegistryUsers : AddToSanctionsList(Owner, u)
    \/ \E u \in RegistryUsers : RemoveFromSanctionsList(Owner, u)

InitRegistry == Init /\ deployed = WAuctionAddr

SpecRegistry == InitRegistry /\ [][NextRegistry]_vars

\* One lot of YizhenAuctionMinimal sold to a bidder, and the fulfilment of its
\* token: the holder gives a shipping address, the platform ships, the token
\* changes hands
TokenIds == {0, 1}
ShippingChoices == {"", "1 Kiln Road", "2 Glaze Street"}
TrackingChoices == {"TRK-1", "TRK-2"}

NextFulfil ==
    \/ Tick(Genesis + HOUR)
    \/ SetAuctionContract(Owner, AuctionAddr)
    \/ /\ nextAuctionId = 0
       /\ CreateAuction(Owner, 2 * BidQuantum, 3 * BidQuantum, BidQuantum, HOUR)
    \/ \E who \in Bidders : PlaceBid(0, who, 3 * BidQuantum)
    \/ EndAuction(0, Owner, TRUE, TRUE)
    \/ \E who \in Bidders \cup {Owner}, t \in TokenIds, a \in ShippingChoices :
           UpdateShippingAddress(who, t, a)
    \/ \E who \in {Owner, "alice"}, t \in TokenIds, n \in TrackingChoices :
           MarkAsShipped(who, t, n)
    \/ \E who \in Bidders, to \in Bidders, t \in TokenIds :
           TransferFrom(who, who, to, t)

SpecFulfil == InitMinimal /\ [][NextFulfil]_vars

\* The registry's volume counters for one approved user, once the officer
\* has set the limits of the user's level: every amount is recorded only
\* after checkTransaction approved it, as placeBid of
\* YizhenAuctionWithCompliance does
VolumeTimes ==
    {Genesis + DAY, Genesis + DAY + 1, Genesis + 2 * DAY + 1,
     Genesis + 2 * DAY + 2, Genesis + MONTH + 2 * DAY + 2,
     Genesis + MONTH + 2 * DAY + 3}
VolumeAmounts == {100, 200, 300}

NextVolume ==
    \/ \E t \in VolumeTimes : Tick(t)
    \/ GrantRole(Owner, "RISK_MONITOR", Owner)
    \/ \E u \in RegistryUsers : UpdateCompliance(Owner, u, APPROVED, 0)
    \/ UpdateTransactionLimits(Owner, KYC_NONE, 300, 500, 200)
    \/ \E u \in RegistryUsers, amount \in VolumeAmounts :
           /\ transactionLimits[KYC_NONE].monthlyLimit = 500
           /\ CheckTransaction(u, amount).approved
           /\ RecordTransaction(Owner, u, amount)

SpecVolume == InitRegistry /\ [][NextVolume]_vars

\* determineOverallStatus over every combination of results
InitStatus ==
    /\ InitContracts
    /\ deployed = AuctionAddr
    /\ InitIntegration
    /\ InitMonitor
    /\ results \in ResultInputs
    /\ overallStatus = NoStatus

NextStatus == DetermineOverallStatus

SpecStatus == InitStatus /\ [][NextStatus]_vars

\* The integration in front of Web3Manager: one wallet connects, once, and bids;
\* config.complianceMode is whatever the page set it to
InitBids ==
    /\ InitContracts
    /\ deployed = AuctionAddr
    /\ InitAgent
    /\ userAccount = NoAddr
    /\ complianceMode \in ComplianceModes
    /\ dateNow = 0
    /\ complianceHooks = [w \in Bidders |-> NoHook]
    /\ pendingTransactions = {}
    /\ awaiting = {}
    /\ txCounter = 0
    /\ placedBids = 0
    /\ kycRequests = 0
    /\ InitMonitor

NextBids ==
    \/ \E t \in DateChoices : Tock(t)
    \/ /\ userAccount = NoAddr
       /\ \E r \in BidResults : ConnectWallet("alice", r)
    \/ \E a \in Artifacts, v \in BidAmounts, r \in BidResults :
           WrappedPlaceBid(a, v, r)
    \/ \E txId \in 1..MaxTx, result \in BOOLEAN : OriginalBidReturns(txId, result)
    \/ \E txId \in 1..MaxTx : OriginalBidThrows(txId)
    \/ \E txId \in 1..MaxTx : CleanUp(txId)

SpecBids == InitBids /\ [][NextBids]_vars

\* ------------------------------------------------------------- properties
RECURSIVE SumOver(_, _)
SumOver(f, S) ==
    IF S = {} THEN 0
    ELSE LET x == CHOOSE y \in S : TRUE
         IN  f[x] + SumOver(f, S \ {x})

\* the live highest bid the contract holds for an auction that is still open
LockedBid(a) == IF auctions[a].ended THEN 0 ELSE auctions[a].highestBid

\* the tokens minted by the settlement of auction a
TokensOf(a) == {i \in DOMAIN ceramics : ceramics[i].auctionId = a}

\* C1 (no fund loss): in every reachable state and for every auction, the
\* escrow balances of all bidders plus the live highest bid of the auction,
\* while it has not ended, equal the ether deposited by accepted bids minus
\* the ether withdrawn and the ether disbursed at settlement.
C1_NoFundLoss ==
    \A a \in AuctionIds :
        SumOver(pendingReturns[a], Addr) + LockedBid(a)
            = g_deposited[a] - (SumOver(g_withdrawn[a], Addr) + g_disbursed[a])

\* an auction that took bids, saw an outbid bidder withdraw and was settled
C1_Witness ==
    \E a \in AuctionIds :
        /\ auctions[a].ended
        /\ g_disbursed[a] > 0
        /\ \E b \in Bidders : g_withdrawn[a][b] > 0

C5_WithdrawStep ==
    call'.op = "withdraw" =>
        LET id == call'.id
            who == call'.who
        IN  /\ pendingReturns[id][who] > 0
            /\ pendingReturns'[id][who] = 0
            /\ call'.value = pendingReturns[id][who]
            /\ g_paid' = [g_paid EXCEPT ![who] = @ + pendingReturns[id][who]]
            /\ \A a \in AuctionIds, b \in Addr :
                   <<a, b>> # <<id, who>> =>
                       pendingReturns'[a][b] = pendingReturns[a][b]

C5_NothingTwice ==
    \A a \in AuctionIds, b \in Addr :
        /\ pendingReturns[a][b] = 0 =>
               \A payOK \in BOOLEAN :
                   WithdrawResult(a, b, payOK) = "Nothing to withdraw"
        /\ g_withdrawn[a][b] <= g_credited[a][b]

C5_WithdrawPaysOnce == [][C5_WithdrawStep]_vars /\ []C5_NothingTwice

\* a bidder has just withdrawn a refund; the entry is zero again
C5_Witness ==
    /\ call.op = "withdraw"
    /\ call.value > 0
    /\ pendingReturns[call.id][call.who] = 0
    /\ g_paid[call.who] = call.value

\* C8 (endTime never decreases): on an auction that exists, no step lowers
\* endTime, and the only step that raises it is an accepted placeBid on that
\* auction.
C8_EndTimeStep ==
    \A id \in AuctionIds :
        id < nextAuctionId =>
            /\ auctions'[id].endTime >= auctions[id].endTime
            /\ auctions'[id].endTime > auctions[id].endTime =>
                   call'.op = "placeBid" /\ call'.id = id

C8_EndTimeMonotonic == [][C8_EndTimeStep]_vars

\* an auction of one hour whose end has been moved by a late bid
C8_Witness ==
    \E id \in AuctionIds :
        /\ id < nextAuctionId
        /\ auctions[id].endTime - auctions[id].startTime = HOUR + FIVE_MINUTES
        /\ call.op = "placeBid"

\* C10 (endAuction once, not early): an endAuction that goes through finds
\* now >= endTime and ended = FALSE and sets ended; before endTime it fails
\* with "Not ended", on an ended auction with "Already ended"; an auction
\* that was created and has ended stays ended, and once ended is set
\* nothing more is disbursed, credited or minted for that id.
C10_EndAuctionStep ==
    /\ call'.op = "endAuction" =>
           /\ now >= auctions[call'.id].endTime
           /\ ~auctions[call'.id].ended
           /\ auctions'[call'.id].ended
    /\ \A id \in AuctionIds :
           auctions[id].ended =>
               /\ id < nextAuctionId => auctions'[id].ended
               /\ g_disbursed'[id] = g_disbursed[id]
               /\ g_credited'[id] = g_credited[id]
               /\ TokensOf(id)' = TokensOf(id)

C10_EndAuctionRefusals ==
    \A id \in AuctionIds, payOK \in BOOLEAN, accepts \in BOOLEAN :
        /\ now < auctions[id].endTime =>
               EndAuctionResult(id, payOK, accepts) = "Not ended"
        /\ now >= auctions[id].endTime /\ auctions[id].ended =>
               EndAuctionResult(id, payOK, accepts) = "Already ended"

C10_EndAuctionOnce == [][C10_EndAuctionStep]_vars /\ []C10_EndAuctionRefusals

\* a settled auction, after its endAuction and a later call on the contract
C10_Witness ==
    \E id \in AuctionIds :
        /\ auctions[id].ended
        /\ g_disbursed[id] > 0
        /\ TokensOf(id) # {}
        /\ call.op # "endAuction"

\* C2 (compliance gate never bypassed): a placeBid that goes through, on
\* either auction contract, is one that checkTransaction approves for the
\* bidder and the amount in the state the bid arrives in.
C2_GateStepMinimal ==
    call'.op = "placeBid" => CheckTransaction(call'.who, call'.value).approved

C2_GateStepW ==
    call'.op = "W.placeBid" => CheckTransaction(call'.who, call'.value).approved

C2_ComplianceGate == [][C2_GateStepMinimal /\ C2_GateStepW]_vars

\* C4 (monotonic bids): a bid is refused as too low only when it is below the
\* minimum acceptable bid, which is the starting price while there is no
\* bidder and the highest bid plus the increment afterwards; a bid equal to
\* the starting price on a fresh auction is not too low.
C4_TooLowMinimal ==
    \A id \in AuctionIds, v \in BidValues :
        id < nextAuctionId /\ PlaceBidResult(id, v) = "Bid too low" =>
            v < (IF auctions[id].highestBidder = NoAddr
                 THEN auctions[id].startingPrice
                 ELSE auctions[id].highestBid + auctions[id].minBidIncrement)

C4_TooLowW ==
    \A id \in WAuctionIds, who \in Bidders, v \in WBidValues :
        /\ id < auctionCounter
        /\ wAuctions[id].currentBidder = NoAddr
        /\ WPlaceBidResult(id, who, v, TRUE) = "Bid too low"
        => v < wAuctions[id].startPrice

C4_MonotonicBids == C4_TooLowMinimal /\ C4_TooLowW

\* C6 (pull payment on outbid): an accepted bid sends no ether to anyone; on
\* YizhenAuctionMinimal the displaced bid is added to the displaced bidder's
\* escrow entry.
C6_PullStepMinimal ==
    call'.op = "placeBid" =>
        LET a == auctions[call'.id]
        IN  /\ g_paid' = g_paid
            /\ a.highestBidder # NoAddr =>
                   pendingReturns'[call'.id][a.highestBidder]
                       = pendingReturns[call'.id][a.highestBidder] + a.highestBid

C6_PullStepW == call'.op = "W.placeBid" => g_paid' = g_paid

C6_PullPayment == [][C6_PullStepMinimal /\ C6_PullStepW]_vars

\* C7 (anti-snipe): an accepted bid that arrives less than five minutes
\* before endTime moves endTime five minutes on; an earlier bid leaves it.
C7_AntiSnipeStepMinimal ==
    call'.op = "placeBid" =>
        LET a == auctions[call'.id]
        IN  auctions'[call'.id].endTime =
                IF a.endTime - now < FIVE_MINUTES
                THEN a.endTime + FIVE_MINUTES ELSE a.endTime

C7_AntiSnipeStepW ==
    call'.op = "W.placeBid" =>
        LET a == wAuctions[call'.id]
        IN  wAuctions'[call'.id].endTime =
                IF a.endTime - now < FIVE_MINUTES
                THEN a.endTime + FIVE_MINUTES ELSE a.endTime

C7_AntiSnipe == [][C7_AntiSnipeStepMinimal /\ C7_AntiSnipeStepW]_vars

\* C9 (all-or-nothing placeBid): a placeBid changes the bid state, the escrow
\* and the registry's volume counters only when every precondition holds (the
\* auction is open, the bid reaches the minimum and, on the gated contract,
\* the registry approves) and then writes all of its effects; whenever a
\* precondition fails the call is refused.
C9_AcceptedStepMinimal ==
    call'.op = "placeBid" =>
        LET a == auctions[call'.id]
        IN  /\ now < a.endTime
            /\ ~a.ended
            /\ call'.value >= (IF a.highestBid = 0 THEN a.startingPrice
                               ELSE a.highestBid + a.minBidIncrement)
            /\ auctions'[call'.id].highestBid = call'.value
            /\ auctions'[call'.id].highestBidder = call'.who

C9_AcceptedStepW ==
    call'.op = "W.placeBid" =>
        LET a == wAuctions[call'.id]
        IN  /\ now < a.endTime
            /\ ~a.ended
            /\ call'.value > a.currentBid
            /\ CheckTransaction(call'.who, call'.value).approved
            /\ wAuctions'[call'.id].currentBid = call'.value
            /\ wAuctions'[call'.id].currentBidder = call'.who

C9_OnlyAcceptedBidsWrite ==
    /\ \A id \in AuctionIds :
           \/ /\ auctions'[id].highestBid = auctions[id].highestBid
              /\ auctions'[id].highestBidder = auctions[id].highestBidder
              /\ pendingReturns'[id] = pendingReturns[id]
           \/ call'.op = "placeBid" /\ call'.id = id
    /\ \A id \in WAuctionIds :
           \/ /\ wAuctions'[id].currentBid = wAuctions[id].currentBid
              /\ wAuctions'[id].currentBidder = wAuctions[id].currentBidder
           \/ call'.op = "W.placeBid" /\ call'.id = id
           \/ call'.op = "W.createAuction" /\ call'.id = id
    /\ volumeVars' # volumeVars => call'.op = "W.placeBid"

C9_Refusals ==
    /\ \A id \in AuctionIds, v \in BidValues :
           LET a == auctions[id]
           IN  \/ now >= a.endTime
               \/ a.ended
               \/ v < MinBid(a)
               => PlaceBidResult(id, v) # "ok"
    /\ \A id \in WAuctionIds, who \in Bidders, v \in WBidValues,
          payOK \in BOOLEAN :
           LET a == wAuctions[id]
           IN  \/ now >= a.endTime
               \/ a.ended
               \/ v <= a.currentBid
               \/ ~CheckTransaction(who, v).approved
               => WPlaceBidResult(id, who, v, payOK) # "ok"

C9_AllOrNothing ==
    /\ [][C9_AcceptedStepMinimal /\ C9_AcceptedStepW
              /\ C9_OnlyAcceptedBidsWrite]_vars
    /\ []C9_Refusals

\* a bid was accepted and recorded by the registry, and a higher bid of the
\* same bidder would now be refused by the compliance check alone
C9_Witness ==
    /\ call.op = "W.placeBid"
    /\ dailyVolume[call.who] > 0
    /\ \E v \in WBidValues :
           WPlaceBidResult(call.id, call.who, v, TRUE) = "Compliance check failed"

\* C11 (settlement payout): an endAuction that settles (a highest bidder
\* whose bid reaches the reserve) pays fee = highestBid * 250 \div 10000 to the
\* fee recipient and highestBid - fee to the seller of the auction, the two
\* adding up to highestBid, and credits no escrow entry.
C11_PayoutStep ==
    /\ call'.op = "endAuction"
    /\ auctions[call'.id].highestBidder # NoAddr
    /\ auctions[call'.id].highestBid >= auctions[call'.id].reservePrice
    => LET id == call'.id
           bid == auctions[id].highestBid
           fee == (bid * 250) \div 10000
       IN  /\ g_paid' = [b \in Addr |->
                  g_paid[b] + (IF b = FeeRecipient THEN fee ELSE 0)
                            + (IF b = g_seller[id] THEN bid - fee ELSE 0)]
           /\ g_disbursed'[id] = g_disbursed[id] + bid
           /\ pendingReturns' = pendingReturns

C11_SettlementPayout == [][C11_PayoutStep]_vars

\* C12 (unsold outcome): an endAuction on an auction without a bidder, or
\* whose highest bid is below the reserve, ends it, pays nobody and mints
\* nothing; a highest bidder gets the full highest bid added to their escrow
\* entry, which they can then withdraw.
C12_UnsoldStep ==
    /\ call'.op = "endAuction"
    /\ \/ auctions[call'.id].highestBidder = NoAddr
       \/ auctions[call'.id].highestBid < auctions[call'.id].reservePrice
    => LET id == call'.id
           a == auctions[id]
       IN  /\ auctions'[id].ended
           /\ ~auctions'[id].nftMinted
           /\ g_paid' = g_paid
           /\ g_disbursed' = g_disbursed
           /\ ceramics' = ceramics
           /\ pendingReturns' =
                  IF a.highestBidder = NoAddr THEN pendingReturns
                  ELSE [pendingReturns EXCEPT ![id][a.highestBidder] =
                            @ + a.highestBid]

C12_Withdrawable ==
    \A id \in AuctionIds, b \in Bidders :
        pendingReturns[id][b] > 0 => WithdrawResult(id, b, TRUE) = "ok"

C12_UnsoldOutcome == [][C12_UnsoldStep]_vars /\ []C12_Withdrawable

\* an auction just ended below its reserve, the bid waiting in escrow
C12_Witness ==
    /\ call.op = "endAuction"
    /\ auctions[call.id].ended
    /\ auctions[call.id].highestBidder # NoAddr
    /\ auctions[call.id].highestBid < auctions[call.id].reservePrice
    /\ pendingReturns[call.id][auctions[call.id].highestBidder]
           >= auctions[call.id].highestBid
    /\ TokensOf(call.id) = {}

\* C13 (status is terminal): an auction that was created and has ended stays
\* ended, and from then on no step changes its highestBid, highestBidder,
\* endTime, reserve, minted flag or token.
C13_TerminalStep ==
    \A id \in AuctionIds :
        id < nextAuctionId /\ auctions[id].ended =>
            /\ auctions'[id] = auctions[id]
            /\ TokensOf(id)' = TokensOf(id)

C13_StatusTerminal == [][C13_TerminalStep]_vars

\* an ended auction that the contract has been called on again since
C13_Witness ==
    \E id \in AuctionIds :
        /\ id < nextAuctionId
        /\ auctions[id].ended
        /\ auctions[id].highestBidder # NoAddr
        /\ call.op \in {"withdraw", "setAuctionMetadata", "tick"}

\* C14 (createAuction validates): every auction that exists has
\* reservePrice >= startingPrice > 0 and a duration between 1 hour and 30
\* days, on either contract; and createAuction refuses a duration outside
\* that range and a non-positive starting price.
C14_MinimalAuctionsValid ==
    \A id \in AuctionIds :
        id < nextAuctionId =>
            /\ auctions[id].startingPrice > 0
            /\ auctions[id].reservePrice >= auctions[id].startingPrice
            /\ auctions[id].endTime - auctions[id].startTime >= HOUR
            /\ auctions[id].endTime - auctions[id].startTime <= THIRTY_DAYS

C14_WAuctionsValid ==
    \A id \in WAuctionIds :
        id < auctionCounter =>
            /\ wAuctions[id].startPrice > 0
            /\ wAuctions[id].endTime >= Genesis + HOUR

C14_Refusals ==
    \A who \in {Owner, "alice"}, sp \in CreatePrices, d \in CreateDurations :
        sp <= 0 \/ d < HOUR \/ d > THIRTY_DAYS =>
            CreateAuctionResult(who, sp, d) # "ok"

C14_CreateAuctionValidates ==
    C14_MinimalAuctionsValid /\ C14_WAuctionsValid /\ C14_Refusals

\* the ether YizhenAuctionMinimal holds: taken in, less what it has sent out
ContractBalance ==
    LET held(a) == g_deposited[a] - g_disbursed[a] - SumOver(g_withdrawn[a], Addr)
    IN  SumOver([a \in AuctionIds |-> held(a)], AuctionIds)

\* C15 (a bidder can always recover funds): in every reachable state,
\* whether the auction is open, expired, ended or never finalized, a bidder
\* with a non-zero escrow entry passes every require of withdraw, and the
\* contract holds at least that much ether; no call by the seller, the fee
\* recipient or the owner is needed first.
C15_BidderCanRecover ==
    \A id \in AuctionIds, b \in Bidders :
        pendingReturns[id][b] > 0 =>
            /\ WithdrawResult(id, b, TRUE) = "ok"
            /\ ContractBalance >= pendingReturns[id][b]

\* an outbid bidder's refund waits in an auction that has run out and that
\* nobody has finalized
C15_Witness ==
    \E id \in AuctionIds, b \in Bidders :
        /\ pendingReturns[id][b] > 0
        /\ id < nextAuctionId
        /\ now >= auctions[id].endTime
        /\ ~auctions[id].ended

\* checkTransaction's three limit checks, for the limits of the user's level
WithinLimits(user, amount) ==
    LET limits == transactionLimits[userCompliance[user].kycLevel]
    IN  /\ amount <= limits.perTransactionLimit
        /\ _getCurrentDailyVolume(user) + amount <= limits.dailyLimit
        /\ _getCurrentMonthlyVolume(user) + amount <= limits.monthlyLimit

KYCExpired(user) ==
    userCompliance[user].kycExpiry > 0 /\ now > userCompliance[user].kycExpiry

ManualReview == Verdict(FALSE, "High risk - manual review required")

\* C16 as stated (Scenario D): a user whose riskScore is at or above the
\* high-risk threshold gets the manual-review rejection for every amount.
C16_ScenarioD ==
    \A u \in RegistryUsers, amount \in Amounts :
        userCompliance[u].riskScore >= highRiskThreshold =>
            CheckTransaction(u, amount) = ManualReview

\* C16 as amended: a user whose riskScore is at or above the high-risk
\* threshold is rejected for every amount; the reason is manual review
\* exactly when no earlier check of checkTransaction fires, that is when the
\* user is not sanctioned, not Blocked, not Unknown, the KYC has not expired
\* and the amount is within the three limits.
C16_HighRiskRejected ==
    \A u \in RegistryUsers, amount \in Amounts :
        userCompliance[u].riskScore >= highRiskThreshold =>
            /\ ~CheckTransaction(u, amount).approved
            /\ CheckTransaction(u, amount) = ManualReview
                   <=> /\ ~userCompliance[u].sanctioned
                       /\ ~sanctionsList[u]
                       /\ userCompliance[u].status \notin {BLOCKED, UNKNOWN}
                       /\ ~KYCExpired(u)
                       /\ WithinLimits(u, amount)

\* a high-risk user who gets manual review for one amount and a limit
\* rejection for a larger one
C16_Witness ==
    \E u \in RegistryUsers :
        /\ userCompliance[u].riskScore = ScenarioRisk
        /\ \E amount \in Amounts : CheckTransaction(u, amount) = ManualReview
        /\ \E amount \in Amounts :
               CheckTransaction(u, amount).reason = "Exceeds per-transaction limit"

\* C17 (sanctioned or Blocked is rejected first): a sanctioned user gets
\* "User is sanctioned" and a Blocked one "User is blocked", for every amount
\* including 0, whatever the KYC level, expiry, risk score, limits and volume
\* counters are.
C17_BlockedRejectedFirst ==
    \A u \in RegistryUsers, amount \in Amounts :
        /\ userCompliance[u].sanctioned \/ sanctionsList[u] =>
               CheckTransaction(u, amount) = Verdict(FALSE, "User is sanctioned")
        /\ /\ userCompliance[u].status = BLOCKED
           /\ ~(userCompliance[u].sanctioned \/ sanctionsList[u])
           => CheckTransaction(u, amount) = Verdict(FALSE, "User is blocked")

\* a Blocked, high-risk user whose KYC has expired
C17_Witness ==
    \E u \in RegistryUsers :
        /\ userCompliance[u].status = BLOCKED
        /\ ~userCompliance[u].sanctioned
        /\ KYCExpired(u)
        /\ userCompliance[u].riskScore >= highRiskThreshold
        /\ userCompliance[u].kycLevel = KYC_BASIC

\* C18 (high risk forces Blocked): after an updateCompliance the stored
\* status is Blocked when the riskScore passed is at or above the high-risk
\* threshold, and the status passed when it is below; the riskScore stored
\* is the one passed.
C18_UpdateStep ==
    call'.op = "updateCompliance" =>
        /\ userCompliance'[call'.user].riskScore = call'.value
        /\ userCompliance'[call'.user].status =
               IF call'.value >= highRiskThreshold THEN BLOCKED
               ELSE call'.status

C18_HighRiskForcesBlocked == [][C18_UpdateStep]_vars

\* an officer has just passed Approved with a high risk score
C18_Witness ==
    /\ call.op = "updateCompliance"
    /\ call.status = APPROVED
    /\ call.value = ScenarioRisk
    /\ userCompliance[call.user].status = BLOCKED

\* C19 (sanctions are sticky): a user on the sanctions list stays on it, with
\* the sanctioned flag set, through every step that is not a
\* removeFromSanctionsList for that user, and checkTransaction rejects the
\* user for every amount all the while.
C19_StickyStep ==
    \A u \in RegistryUsers :
        /\ sanctionsList[u]
        /\ ~(call'.op = "removeFromSanctionsList" /\ call'.user = u)
        => sanctionsList'[u] /\ userCompliance'[u].sanctioned

C19_Rejected ==
    \A u \in RegistryUsers, amount \in Amounts :
        /\ sanctionsList[u] <=> userCompliance[u].sanctioned
        /\ sanctionsList[u] => ~CheckTransaction(u, amount).approved

C19_SanctionsSticky == [][C19_StickyStep]_vars /\ []C19_Rejected

\* a sanctioned user whom an officer has since given the status Approved
C19_Witness ==
    \E u \in RegistryUsers :
        /\ sanctionsList[u]
        /\ userCompliance[u].status = APPROVED
        /\ userCompliance[u].riskScore = 0
        /\ userCompliance[u].kycLevel = KYC_BASIC

\* C20 (Blocked is absorbing for automatic paths): a step that takes a user
\* out of Blocked is an updateCompliance or a batchUpdateCompliance for that
\* user by a compliance officer; updateKYC, recordTransaction,
\* setJurisdiction and removeFromSanctionsList leave a Blocked user Blocked.
C20_LeaveBlockedStep ==
    \A u \in RegistryUsers :
        /\ userCompliance[u].status = BLOCKED
        /\ userCompliance'[u].status # BLOCKED
        => /\ call'.op \in {"updateCompliance", "batchUpdateCompliance"}
           /\ call'.user = u
           /\ HasRole("COMPLIANCE_OFFICER", call'.who)

C20_BlockedAbsorbing == [][C20_LeaveBlockedStep]_vars

\* a Blocked user right after an updateKYC to a level that approves a
\* Pending user
C20_Witness ==
    /\ call.op = "updateKYC"
    /\ call.value >= KYC_BASIC
    /\ userCompliance[call.user].status = BLOCKED

\* the fulfilment state of a minted token
Fulfillment(c) ==
    IF c.shipped THEN "Shipped"
    ELSE IF c.shippingAddress # "" THEN "AddressSet"
    ELSE "AwaitingAddress"

\* C21 (fulfilment is linear): a token is minted in AwaitingAddress; it
\* becomes Shipped only from AddressSet, by a markAsShipped that keeps the
\* address; it never goes back to an earlier state; once Shipped, neither the
\* address nor the shipped flag changes again; markAsShipped is refused for a
\* token without an address and for a token already shipped.
C21_FulfilmentStep ==
    /\ \A i \in DOMAIN ceramics :
           /\ i \in DOMAIN ceramics'
           /\ Fulfillment(ceramics[i]) = "AddressSet"
                  => Fulfillment(ceramics'[i]) \in {"AddressSet", "Shipped"}
           /\ Fulfillment(ceramics[i]) = "Shipped"
                  => /\ ceramics'[i].shipped
                     /\ ceramics'[i].shippingAddress = ceramics[i].shippingAddress
           /\ Fulfillment(ceramics'[i]) = "Shipped"
                  /\ Fulfillment(ceramics[i]) # "Shipped"
                  => /\ Fulfillment(ceramics[i]) = "AddressSet"
                     /\ call'.op = "markAsShipped"
                     /\ ceramics'[i].shippingAddress = ceramics[i].shippingAddress
    /\ \A i \in DOMAIN ceramics' \ DOMAIN ceramics :
           Fulfillment(ceramics'[i]) = "AwaitingAddress"

C21_MarkRefusals ==
    \A who \in Addr, t \in TokenIds :
        TokenExists(t) /\ Fulfillment(ceramics[t + 1]) # "AddressSet"
            => MarkAsShippedResult(who, t) # "ok"

C21_FulfilmentLinear == [][C21_FulfilmentStep]_vars /\ []C21_MarkRefusals

\* the token was shipped to the address its holder gave
C21_Witness ==
    /\ call.op = "markAsShipped"
    /\ TokenExists(0)
    /\ ceramics[1].shipped
    /\ ceramics[1].shippingAddress # ""

\* C22 (the address is given once): an updateShippingAddress that goes
\* through finds the token in AwaitingAddress; for a token in AddressSet or
\* Shipped the call is refused and the stored address stays as it was.
C22_SetOnlyWhenAwaiting ==
    [][call'.op = "updateShippingAddress"
           => Fulfillment(ceramics[call'.id + 1]) = "AwaitingAddress"]_vars

\* what holds of a second address: it is refused once the token is Shipped
C22_RefusedOnceShipped ==
    \A who \in Addr, t \in TokenIds, a \in ShippingChoices :
        TokenExists(t) /\ ceramics[t + 1].shipped
            => UpdateShippingAddressResult(who, t, a)
                   \in {"Not the owner", "Already shipped"}

\* C23 (only the holder gives the address): an updateShippingAddress that
\* goes through was sent by the holder of the token at that moment; any other
\* sender is refused with "Not the owner", among them the auction winner
\* after the token has changed hands, the platform owner and the auction
\* contract, and the refusal leaves the address as it was.
C23_HolderStep ==
    call'.op = "updateShippingAddress"
        => /\ call'.who = ceramics[call'.id + 1].owner
           /\ \A i \in DOMAIN ceramics :
                  i # call'.id + 1 => ceramics'[i] = ceramics[i]

C23_Refusals ==
    \A who \in Addr \cup {AuctionAddr}, t \in TokenIds, a \in ShippingChoices :
        TokenExists(t) /\ who # ceramics[t + 1].owner
            => UpdateShippingAddressResult(who, t, a) = "Not the owner"

C23_OnlyHolderSetsAddress == [][C23_HolderStep]_vars /\ []C23_Refusals

\* the token went from the winner to another holder, who gave the address
C23_Witness ==
    /\ call.op = "updateShippingAddress"
    /\ TokenExists(0)
    /\ ceramics[1].owner # ceramics[1].originalMinter
    /\ call.who = ceramics[1].owner

\* C24 (one ownership record per lot): no two minted tokens carry the same
\* lot number.
C24_OneRecordPerLot ==
    \A i, j \in DOMAIN ceramics :
        ceramics[i].lotNumber = ceramics[j].lotNumber => i = j

\* what holds of the mint: one token per auction, minted once
C24_OneRecordPerAuction ==
    \A i, j \in DOMAIN ceramics :
        ceramics[i].auctionId = ceramics[j].auctionId => i = j


\* C25 (bids are serialized per auction): each accepted bid is one step; after
\* it the auction has a single highest bidder, the sender; a bid that follows
\* an accepted bid is at least the minimum computed from that bid; the
\* displaced bidder's full amount is credited to their escrow entry and no
\* ether leaves the contract; a bid on one auction changes nothing of any
\* other auction.
C25_StepMinimal ==
    call'.op = "placeBid" =>
        LET id == call'.id
            a == auctions[id]
        IN  /\ auctions'[id].highestBidder = call'.who
            /\ auctions'[id].highestBid = call'.value
            /\ a.highestBidder # NoAddr =>
                   /\ call'.value >= a.highestBid + a.minBidIncrement
                   /\ pendingReturns'[id][a.highestBidder]
                          = pendingReturns[id][a.highestBidder] + a.highestBid
            /\ \A other \in AuctionIds \ {id} :
                   /\ auctions'[other] = auctions[other]
                   /\ pendingReturns'[other] = pendingReturns[other]

C25_StepW ==
    call'.op = "W.placeBid" =>
        LET id == call'.id
            a == wAuctions[id]
        IN  /\ wAuctions'[id].currentBidder = call'.who
            /\ wAuctions'[id].currentBid = call'.value
            /\ a.currentBidder # NoAddr =>
                   /\ call'.value > a.currentBid
                   /\ g_paid'[a.currentBidder] = g_paid[a.currentBidder]
            /\ \A other \in WAuctionIds \ {id} :
                   wAuctions'[other] = wAuctions[other]

C25_SerializedBids == [][C25_StepMinimal /\ C25_StepW]_vars

\* what holds: every clause on YizhenAuctionMinimal
C25_SerializedMinimal == [][C25_StepMinimal]_vars


\* C26 (precedence of the overall status): determineOverallStatus returns
\* 'blocked' whenever the sanctions result is 'blocked' or the jurisdiction
\* check is 'restricted', whatever the other four results are, and returns
\* 'approved' only when KYC is verified, AML and sanctions are clear and the
\* risk score is below 0.5.
C26_StatusPrecedence ==
    overallStatus # NoStatus =>
        /\ results.sanctionsResult = "blocked"
               \/ results.jurisdictionCheck = "restricted"
               => overallStatus = "blocked"
        /\ overallStatus = "approved"
               => /\ results.kycResult = "verified"
                  /\ results.amlResult = "clear"
                  /\ results.sanctionsResult = "clear"
                  /\ results.riskScore < 50

\* a sanctioned wallet with a high-risk AML result and a high score
C26_Witness ==
    /\ overallStatus = "blocked"
    /\ results.amlResult = "high-risk"
    /\ results.riskScore > 80
    /\ results.kycResult = "verified"

\* the bid of the step is above maxBidWithoutKYC and comes from a connected
\* wallet whose KYC status is not 'verified'
HighValueUnverified ==
    /\ call'.op = "web3.placeBid"
    /\ call'.who # NoAddr
    /\ call'.value > maxBidWithoutKYC
    /\ call'.check.kyc # "verified"

C27_HighValueStep ==
    HighValueUnverified =>
        /\ placedBids' = placedBids
        /\ pendingTransactions' = pendingTransactions
        /\ awaiting' = awaiting
        /\ call'.check.approved
               => /\ call'.result = "false"
                  /\ kycRequests' = kycRequests + 1
        /\ ~call'.check.approved
               => /\ call'.result
                         = "throws: handleRejectedTransaction is not a function"
                  /\ kycRequests' = kycRequests

TxIdsOf(entries) == {tx.txId : tx \in entries}

\* C28 (pending-transaction tracking): a wrapped placeBid that passes the
\* compliance check and is not deferred for KYC adds exactly one entry, with
\* status 'pending', and only then calls the original placeBid; a rejected or
\* KYC-deferred placeBid adds none; the entry is there, still 'pending', when
\* the original placeBid comes back; nothing else adds an entry.
C28_TrackingStep ==
    /\ call'.op = "web3.placeBid" =>
           LET added == pendingTransactions' \ pendingTransactions
               cleared == /\ call'.who # NoAddr
                          /\ call'.check.approved
                          /\ ~(/\ call'.value > maxBidWithoutKYC
                               /\ call'.check.kyc # "verified")
           IN  /\ pendingTransactions \subseteq pendingTransactions'
               /\ cleared =>
                      /\ Cardinality(added) = 1
                      /\ \A tx \in added :
                             /\ tx.status = "pending"
                             /\ tx.amount = call'.value
                             /\ tx.walletAddress = call'.who
                             /\ tx.txId \notin TxIdsOf(pendingTransactions)
                             /\ tx.txId \in awaiting' \ awaiting
                      /\ placedBids' = placedBids + 1
               /\ ~cleared =>
                      /\ added = {}
                      /\ placedBids' = placedBids
    /\ call'.op \in {"web3.placeBid: resolved", "web3.placeBid: rejected"} =>
           \E tx \in pendingTransactions :
               tx.txId = call'.id /\ tx.status = "pending"
    /\ TxIdsOf(pendingTransactions') \subseteq TxIdsOf(pendingTransactions)
           \/ call'.op = "web3.placeBid"

RECURSIVE SumRecorded(_)
SumRecorded(S) ==
    IF S = {} THEN 0
    ELSE LET p == CHOOSE q \in S : TRUE
         IN  p[2] + SumRecorded(S \ {p})

\* the amounts recorded for the user from time `from` to time `to`
WindowSum(user, from, to) ==
    SumRecorded({p \in g_recorded[user] : from <= p[1] /\ p[1] <= to})

\* the user passes the checks that come before the limits
PassesStatusChecks(user) ==
    /\ ~(userCompliance[user].sanctioned \/ sanctionsList[user])
    /\ userCompliance[user].status \notin {BLOCKED, UNKNOWN}
    /\ ~KYCExpired(user)

\* C29 (volume limits): for a user who passes the earlier checks,
\* checkTransaction rejects an amount above the per-transaction limit of the
\* user's KYC level, and an amount that, added to the current daily (monthly)
\* volume, exceeds the daily (monthly) limit, the current volume being 0 once
\* more than one day (30 days) has passed since the last activity.
C29_Rejects ==
    \A u \in RegistryUsers, amount \in VolumeAmounts \cup Amounts :
        LET limits == transactionLimits[userCompliance[u].kycLevel]
            elapsed == now - lastActivityDate[u]
            daily == IF elapsed > DAY THEN 0 ELSE dailyVolume[u]
            monthly == IF elapsed > MONTH THEN 0 ELSE monthlyVolume[u]
            verdict == CheckTransaction(u, amount)
        IN  PassesStatusChecks(u) =>
                /\ amount > limits.perTransactionLimit
                       => verdict = Verdict(FALSE, "Exceeds per-transaction limit")
                /\ amount <= limits.perTransactionLimit
                       /\ daily + amount > limits.dailyLimit
                       => verdict = Verdict(FALSE, "Exceeds daily limit")
                /\ amount <= limits.perTransactionLimit
                       /\ daily + amount <= limits.dailyLimit
                       /\ monthly + amount > limits.monthlyLimit
                       => verdict = Verdict(FALSE, "Exceeds monthly limit")

\* C29, the consequence: when every amount is recorded after its approval,
\* the amounts recorded for a user within the day (the 30 days) that ends
\* with a record add up to no more than the daily (monthly) limit in force at
\* that record, and each is within the per-transaction limit.
C29_WindowStep ==
    call'.op = "recordTransaction" =>
        LET u == call'.user
            limits == transactionLimits'[userCompliance'[u].kycLevel]
        IN  /\ call'.value <= limits.perTransactionLimit
            /\ SumRecorded({p \in g_recorded'[u] :
                               now - DAY <= p[1] /\ p[1] <= now})
                   <= limits.dailyLimit
            /\ SumRecorded({p \in g_recorded'[u] :
                               now - MONTH <= p[1] /\ p[1] <= now})
                   <= limits.monthlyLimit

C29_VolumeLimits == [][C29_WindowStep]_vars /\ []C29_Rejects

\* amounts recorded at two moments of one day fill the daily limit, and a
\* further amount is refused
C29_Witness ==
    \E u \in RegistryUsers :
        /\ Cardinality({p \in g_recorded[u] : now - DAY <= p[1]}) >= 2
        /\ WindowSum(u, now - DAY, now) > 0
        /\ \E amount \in VolumeAmounts :
               CheckTransaction(u, amount) = Verdict(FALSE, "Exceeds daily limit")


\* C30 (expired verification): checkTransaction rejects with "KYC expired"
\* every user whose kycExpiry lies in the past, an expiry that was never set
\* (zero) included, unless the user is rejected before as sanctioned, BLOCKED
\* or UNKNOWN.
C30_ExpiredRejected ==
    \A u \in RegistryUsers, amount \in Amounts :
        /\ ~(userCompliance[u].sanctioned \/ sanctionsList[u])
        /\ userCompliance[u].status \notin {BLOCKED, UNKNOWN}
        /\ userCompliance[u].kycExpiry < now
        => CheckTransaction(u, amount) = Verdict(FALSE, "KYC expired")

\* what holds: an expiry that updateKYC has set and that has passed
C30_SetExpiryRejected ==
    \A u \in RegistryUsers, amount \in Amounts :
        /\ ~(userCompliance[u].sanctioned \/ sanctionsList[u])
        /\ userCompliance[u].status \notin {BLOCKED, UNKNOWN}
        /\ userCompliance[u].kycExpiry > 0
        /\ userCompliance[u].kycExpiry < now
        => CheckTransaction(u, amount) = Verdict(FALSE, "KYC expired")


\* C31 (volume counters advance on success): after every placeBid on
\* YizhenAuctionWithCompliance that goes through, the bidder's daily and
\* monthly volume are the current volumes of the moment plus the bid, and the
\* last activity is the time of the bid.
C31_AdvanceStep ==
    call'.op = "W.placeBid" =>
        LET u == call'.who
        IN  /\ dailyVolume'[u] = _getCurrentDailyVolume(u) + call'.value
            /\ monthlyVolume'[u] = _getCurrentMonthlyVolume(u) + call'.value
            /\ lastActivityDate'[u] = now

C31_VolumeAdvances == [][C31_AdvanceStep]_vars

\* what holds: the counters advance once the auction contract has been
\* granted RISK_MONITOR_ROLE on the registry
C31_AdvancesWithRole ==
    [][HasRole("RISK_MONITOR", WAuctionAddr) => C31_AdvanceStep]_vars


\* The registry's counters under YizhenAuctionWithCompliance: bids that go
\* through, bids that revert at each of their checks, and authorizations
\* asked on their own
NextCounters ==
    \/ Tick(Genesis + HOUR)
    \/ GrantRole(Owner, "RISK_MONITOR", WAuctionAddr)
    \/ \E u \in Bidders, risk \in {0, highRiskThreshold} :
          UpdateCompliance(Owner, u, APPROVED, risk)
    \/ /\ auctionCounter = 0
       /\ \E who \in Bidders : WCreateAuction(who, WBidQuantum, HOUR)
    \/ \E who \in Bidders, v \in WBidValues, payOK \in BOOLEAN :
          WPlaceBid(0, who, v, payOK)
    \/ \E who \in Bidders, v \in WBidValues, payOK \in BOOLEAN :
          WPlaceBidReverted(0, who, v, payOK)
    \/ \E u \in Bidders : CheckTransactionCall(Outsider, u, 2 * WBidQuantum)

SpecCounters == InitRegistry /\ [][NextCounters]_vars

\* C32 (authorization and rejected bids leave the counters alone): a call of
\* checkTransaction, and a placeBid that is rejected by the compliance check
\* or by any other of its conditions, leave dailyVolume, monthlyVolume and
\* lastActivityDate of every user as they were.
C32_FrameStep ==
    call'.op \in {"checkTransaction", "W.placeBid: reverted"} =>
        /\ UNCHANGED <<dailyVolume, monthlyVolume, lastActivityDate>>
        /\ UNCHANGED g_recorded

C32_CountersFrame == [][C32_FrameStep]_vars

\* a bid reverted by its refund, after the registry had recorded it, with
\* volume already on the bidder's counters
C32_Witness ==
    /\ call.op = "W.placeBid: reverted"
    /\ call.result = "Transfer failed"
    /\ HasRole("RISK_MONITOR", WAuctionAddr)
    /\ \E u \in Bidders : dailyVolume[u] > 0


\* C33 (withdraw touches only its own entry): a successful withdraw(auctionId)
\* by b clears the escrow entry (auctionId, b), pays that amount to b and
\* leaves every auction's fields and every other escrow entry as they were.
C33_FrameStep ==
    call'.op = "withdraw" =>
        LET id == call'.id
            b == call'.who
        IN  /\ auctions' = auctions
            /\ UNCHANGED <<nextAuctionId, auctionMetadata, nftVars, owner>>
            /\ pendingReturns'[id][b] = 0
            /\ \A i \in DOMAIN pendingReturns :
                  \A u \in DOMAIN pendingReturns[i] :
                     <<i, u>> # <<id, b>> =>
                         pendingReturns'[i][u] = pendingReturns[i][u]
            /\ \A u \in DOMAIN g_paid :
                  g_paid'[u] = g_paid[u]
                               + (IF u = b THEN pendingReturns[id][b] ELSE 0)

\* the escrow of the auction and the amount paid to b after withdraw by b and
\* an acceptable placeBid, taken in either order from the state of the step
C33_WithdrawThenBid ==
    LET id == call'.id
        b == call'.who
    IN  [escrow |-> CreditPrevious(pendingReturns'[id], auctions'[id]),
         paid |-> g_paid'[b]]

C33_BidThenWithdraw ==
    LET id == call'.id
        b == call'.who
        credited == CreditPrevious(pendingReturns[id], auctions[id])
    IN  [escrow |-> Withdrawn(credited, b),
         paid |-> g_paid[b] + credited[b]]

C33_BidPossible ==
    \E v \in BidValues : PlaceBidResult(call'.id, v) = "ok"

\* the claim as stated: the frame, and the same final state in both orders
\* for every placeBid that may follow or precede the withdraw
C33_CommutesStep ==
    /\ C33_FrameStep
    /\ call'.op = "withdraw" /\ C33_BidPossible =>
          C33_WithdrawThenBid = C33_BidThenWithdraw

C33_WithdrawCommutes == [][C33_CommutesStep]_vars

\* what holds: the frame; the same final state in both orders unless the bid
\* displaces the withdrawing bidder; and in every case the same auction
\* fields, the same entries of the others and the same total of b's entry
\* and the amount paid to b
C33_OwnEntryStep ==
    /\ C33_FrameStep
    /\ call'.op = "withdraw" /\ C33_BidPossible =>
          LET id == call'.id
              b == call'.who
              wb == C33_WithdrawThenBid
              bw == C33_BidThenWithdraw
          IN  /\ auctions[id].highestBidder # b => wb = bw
              /\ \A u \in DOMAIN wb.escrow :
                    u # b => wb.escrow[u] = bw.escrow[u]
              /\ wb.escrow[b] + wb.paid = bw.escrow[b] + bw.paid

C33_WithdrawOwnEntry == [][C33_OwnEntryStep]_vars

\* a withdraw on an auction still open to bids whose highest bidder is
\* someone else, while another bidder holds an escrow entry
C33_Witness ==
    /\ call.op = "withdraw"
    /\ now < auctions[call.id].endTime
    /\ ~auctions[call.id].ended
    /\ auctions[call.id].highestBidder \notin {NoAddr, call.who}
    /\ \E u \in Bidders : pendingReturns[call.id][u] > 0


\* C34 (risk/status invariant over all update paths): in every reachable
\* state of the registry, every user whose stored riskScore is at or above
\* highRiskThreshold has status BLOCKED.
C34_HighRiskIsBlocked ==
    \A u \in DOMAIN userCompliance :
        userCompliance[u].riskScore >= highRiskThreshold =>
            userCompliance[u].status = BLOCKED

\* what holds: every operation other than batchUpdateCompliance keeps it
C34_KeptOutsideBatch ==
    [][call'.op # "batchUpdateCompliance" /\ C34_HighRiskIsBlocked
          => C34_HighRiskIsBlocked']_vars


\* C35 (settlement is atomic with minting): no auction is ended with seller
\* and fee recipient paid unless a token was minted to its highest bidder; an
\* endAuction whose mint or payout fails changes nothing, so the auction stays
\* not ended and the highest bid stays in the contract.
C35_SettledHasToken ==
    \A id \in AuctionIds :
        auctions[id].ended /\ (g_disbursed[id] > 0 \/ Settles(auctions[id])) =>
            /\ auctions[id].nftMinted
            /\ \E t \in 1 .. Len(ceramics) :
                  /\ ceramics[t].auctionId = id
                  /\ ceramics[t].originalMinter = auctions[id].highestBidder

C35_FailedStep ==
    call'.op = "endAuction: reverted" =>
        /\ UNCHANGED <<auctions, pendingReturns, ceramics, g_paid, g_disbursed>>
        /\ call'.result \notin {"Not ended", "Already ended"} =>
              /\ ~auctions'[call'.id].ended
              /\ auctions'[call'.id].highestBid = auctions[call'.id].highestBid
              /\ auctions'[call'.id].highestBidder =
                     auctions[call'.id].highestBidder

C35_AtomicSettlement == [][C35_FailedStep]_vars /\ []C35_SettledHasToken

\* an auction settled with its token minted
C35_Witness ==
    /\ auctions[0].ended
    /\ g_disbursed[0] > 0
    /\ \E t \in 1 .. Len(ceramics) :
          ceramics[t].originalMinter = auctions[0].highestBidder


\* C36 (pause blocks only new activity): the emergency pause of the auction
\* contract takes effect when its owner asks for it, and while the contract
\* is paused no createAuction and no placeBid goes through.
C36_PauseStep ==
    /\ call'.op = "pause" /\ call'.who = Owner =>
          call'.result = "ok" /\ AuctionPaused'
    /\ AuctionPaused =>
          call'.op \notin {"createAuction", "placeBid",
                           "W.createAuction", "W.placeBid"}

C37_ClearedStep ==
    LET u == call'.user
    IN  /\ call'.op = "addToSanctionsList" =>
              /\ sanctionsList'[u] /\ userCompliance'[u].sanctioned
              /\ userCompliance'[u].status = BLOCKED
        /\ call'.op = "removeFromSanctionsList" =>
              /\ ~sanctionsList'[u] /\ ~userCompliance'[u].sanctioned
              /\ userCompliance'[u].status = userCompliance[u].status
              /\ call.op = "addToSanctionsList" /\ call.user = u =>
                    /\ userCompliance'[u].status = BLOCKED
                    /\ \A amount \in Amounts :
                          ~CheckTransaction(call.user, amount)'.approved

C37_BlockedStays ==
    \A u \in RegistryUsers :
        /\ userCompliance[u].status = BLOCKED
        /\ call'.op \notin {"updateCompliance", "batchUpdateCompliance"}
        => userCompliance'[u].status = BLOCKED

C37_BlockedRejected ==
    \A u \in RegistryUsers, amount \in Amounts :
        userCompliance[u].status = BLOCKED =>
            ~CheckTransaction(u, amount).approved

C37_ClearedStaysBlocked ==
    /\ [][C37_ClearedStep /\ C37_BlockedStays]_vars
    /\ []C37_BlockedRejected

\* removed from the list, with no flag left, a profile that would otherwise
\* pass, and still BLOCKED
C37_Witness ==
    /\ call.op = "removeFromSanctionsList"
    /\ ~sanctionsList[call.user]
    /\ ~userCompliance[call.user].sanctioned
    /\ userCompliance[call.user].status = BLOCKED
    /\ userCompliance[call.user].riskScore = 0
    /\ userCompliance[call.user].jurisdiction \notin RestrictedJurisdictions
    /\ CheckTransaction(call.user, 0).reason = "User is blocked"


\* C38 (strict mode and the cache): in 'strict' mode the pre-transaction
\* check of a bid never approves a wallet whose overall status is
\* 'manual-review' or 'high-risk', whether the result comes from the
\* five-minute cache or from a fresh check.
C38_StrictStep ==
    /\ call'.op = "web3.placeBid"
    /\ call'.who # NoAddr
    /\ complianceMode = "strict"
    /\ call'.check.overallStatus \in {"manual-review", "high-risk"}
    => ~call'.check.approved

C38_StrictNeverApproves == [][C38_StrictStep]_vars

\* what holds: the fresh check obeys the mode
C38_StrictFreshCheck ==
    [][userAccount # NoAddr /\ ~Cached(userAccount) => C38_StrictStep]_vars


\* The pending transactions of the wrapped placeBid over time: every bid in
\* flight settles (the original placeBid returns or throws), the clock reaches
\* the expiry of every timer set, and a timer that is due fires.
PassingResults ==
    {r \in BidResults : r.sanctionsResult = "clear" /\ r.amlResult = "clear"}

TockToExpiry ==
    \E tx \in pendingTransactions : tx.expires > dateNow /\ Tock(tx.expires)

Settle(txId) ==
    \/ \E result \in BOOLEAN : OriginalBidReturns(txId, result)
    \/ OriginalBidThrows(txId)

NextPending ==
    \/ \E t \in DateChoices : Tock(t)
    \/ TockToExpiry
    \/ /\ userAccount = NoAddr
       /\ \E r \in PassingResults : ConnectWallet("alice", r)
    \/ \E a \in Artifacts, v \in BidAmounts, r \in PassingResults :
           WrappedPlaceBid(a, v, r)
    \/ \E txId \in 1..MaxTx : Settle(txId)
    \/ \E txId \in 1..MaxTx : CleanUp(txId)

FairPending ==
    /\ WF_vars(TockToExpiry)
    /\ \A txId \in 1..MaxTx : WF_vars(Settle(txId)) /\ WF_vars(CleanUp(txId))

SpecPending == InitBids /\ [][NextPending]_vars /\ FairPending

HasEntry(txId) == \E tx \in pendingTransactions : tx.txId = txId
IsPending(txId) ==
    \E tx \in pendingTransactions : tx.txId = txId /\ tx.status = "pending"

\* C39 (every pending transaction is eventually resolved): each entry added
\* to pendingTransactions by a wrapped placeBid eventually leaves status
\* 'pending' and is eventually removed, also when the original bid throws.
C39_EventuallyResolved ==
    \A txId \in 1..MaxTx :
        /\ IsPending(txId) ~> ~IsPending(txId)
        /\ HasEntry(txId) ~> ~HasEntry(txId)

\* the same seen on a finite run: an entry is 'pending' only while its bid is
\* in flight
C39_PendingOnlyInFlight ==
    \A txId \in 1..MaxTx : IsPending(txId) => txId \in awaiting

\* what holds: an entry whose bid returned is eventually removed, and an
\* entry left 'pending' by a bid that threw is never written again
C39_ReturnedRemoved ==
    \A txId \in 1..MaxTx :
        (HasEntry(txId) /\ ~IsPending(txId)) ~> ~HasEntry(txId)

C39_ThrownStaysPending ==
    [][\A txId \in 1..MaxTx :
          IsPending(txId) /\ txId \notin awaiting => IsPending(txId)']_vars


\* Monitoring of connected wallets: connects (the same account may connect
\* again), account changes announced by the provider, stops, timers firing
MonitorResults ==
    {r \in BidResults : r.kycResult = "pending" /\ r.amlResult = "clear"}

NextMonitor ==
    \/ \E w \in Bidders, r \in MonitorResults :
          /\ userAccount \in {NoAddr, w}
          /\ ConnectWallet(w, r)
    \/ \E a \in Bidders, web3First \in BOOLEAN, r \in MonitorResults :
          /\ userAccount # NoAddr
          /\ AccountsChanged(a, web3First, r)
    \/ \E w \in Bidders : StopMonitoring(w)
    \/ \E t \in monitoringTimers : MonitoringCheck(t)

SpecMonitor == InitMinimal /\ [][NextMonitor]_vars

TimersOf(w) == {t \in monitoringTimers : t.wallet = w}

\* C40 (monitoring stops cleanly): after stopMonitoring(wallet) no interval
\* timer of that wallet is left, whatever starts and stops came before; and
\* after an account change no timer of the old account is left.
C40_StopStep ==
    /\ call'.op = "riskMonitor.stopMonitoring" =>
          \A t \in monitoringTimers' : t.wallet # call'.who
    /\ call'.op = "accountsChanged" /\ call'.old # call'.who =>
          \A t \in monitoringTimers' : t.wallet # call'.old

C40_StopsCleanly == [][C40_StopStep]_vars

\* what holds: a stop clears the timer of the latest start and the entry of
\* alerts, so a wallet whose only timer is the one of its entry has none
\* afterwards, and every entry of alerts names a live timer of its wallet
C40_LatestStopped ==
    [][/\ call'.op = "riskMonitor.stopMonitoring" =>
             /\ alerts'[call'.who] = NoTimer
             /\ \A t \in monitoringTimers' : t.id # alerts[call'.who]
             /\ (\A t \in TimersOf(call'.who) : t.id = alerts[call'.who]) =>
                   \A t \in monitoringTimers' : t.wallet # call'.who
       /\ \A w \in Bidders :
             alerts[w] # NoTimer =>
                 [id |-> alerts[w], wallet |-> w] \in monitoringTimers]_vars

====
